---- MODULE Spec2Model ----
(***************************************************************************)
(* Model of the multi-round tool-calling loop of backend/ai_generator.py   *)
(* (AIGenerator.generate_response, _execute_tool_round and                 *)
(* _extract_text_response).  The Completion Service                        *)
(* (client.messages.create) and the tool executor                          *)
(* (tool_manager.execute_tool) are external: every response, every tool    *)
(* output and every fault they can produce is a nondeterministic choice.   *)
(*                                                                         *)
(* A Python string built by an f-string is a tuple of its pieces; a dict   *)
(* is a record whose DOMAIN is the dict's set of keys.                     *)
(***************************************************************************)
EXTENDS Integers, Sequences, FiniteSets, TLC

\* ------------------------------------------------------------------ bounds
\* Longest content-block list of one Completion Service response.
MaxBlocks == 2

\* generate_response calls made on one generator, one after another.
MaxRuns == 3

\* ------------------------------------------------------- program constants
max_rounds == 2

SYSTEM_PROMPT == "SYSTEM_PROMPT"

NoToolManagerError == "Error: Tools requested but no tool manager available."

NoToolsExecutedError == "Error: Unable to execute requested tools."

base_params == [model |-> "model", temperature |-> 0, max_tokens |-> 800]

\* --------------------------------------------------------- input alphabets
Queries == {"What is MCP?"}

\* conversation_history: "" stands for the falsy values (None, ""), the default.
Histories == {""}

\* tools: <<>> stands for the falsy values (None, []).
ToolLists == {<<>>, <<"search_course_content", "get_course_outline">>}

Texts == {"Answer"}

ToolUseBlocks ==
    { [type |-> "tool_use", id |-> "toolu_1", name |-> "search_course_content",
       input |-> "query=x"],
      [type |-> "tool_use", id |-> "toolu_2", name |-> "get_course_outline",
       input |-> "course_name=MCP"] }

TextBlocks == { [type |-> "text", text |-> t] : t \in Texts }

Blocks == TextBlocks \cup ToolUseBlocks

SeqsUpTo(S, n) == UNION { [1..k -> S] : k \in 0..n }

\* The Completion Service gives every tool_use block of a response its own id.
Contents ==
    { c \in SeqsUpTo(Blocks, MaxBlocks) :
        \A i, j \in DOMAIN c :
            (i # j /\ c[i].type = "tool_use" /\ c[j].type = "tool_use")
                => c[i].id # c[j].id }

StopReasons == {"tool_use", "end_turn"}

\* Everything the Completion Service can answer.
Responses == [stop_reason : StopReasons, content : Contents]

\* Outcomes of tool_manager.execute_tool: a returned string or a raised fault.
ToolOutcomes ==
    { [kind |-> "ok", value |-> "tool output"],
      [kind |-> "raise", value |-> "Database connection failed"] }

NoResponse == [stop_reason |-> "none", content |-> <<>>]

NoResult == "<no return value>"

VARIABLES
    pc,             \* position in generate_response
    query,          \* argument
    history,        \* argument conversation_history
    tools,          \* argument
    tool_manager,   \* argument: TRUE when an executor was supplied
    system_content, \* local
    messages,       \* local
    current_round,  \* local
    response,       \* local: last Completion Service response received
    responses,      \* every response the Completion Service has returned
    block_i,        \* _execute_tool_round: index of the next content block
    tool_results,   \* _execute_tool_round: local
    result,         \* value returned by generate_response
    api_calls,      \* keyword arguments of every client.messages.create call
    dispatches      \* every tool_manager.execute_tool call: arguments, outcome

\* The state of one ToolManager and of the tools made for it
\* (backend/search_tools.py).
VARIABLES
    tm_tools,            \* ToolManager.tools: the dict, as its items in order
    last_executed_tool,  \* ToolManager.last_executed_tool
    last_sources,        \* last_sources of every tool object that has one
    recent_execute,      \* name given to the latest execute_tool call on a
                         \* registered name since the last reset_sources
    tm_last              \* the most recent ToolManager call and how it ended

\* The generator object, and what is kept of its runs.
VARIABLES
    self_base_params,    \* AIGenerator.base_params, the dict made in __init__
    runs,                \* generate_response calls that have ended
    first                \* what the first of them was given and did

\* Two queries served at the same time, each by its thread.
VARIABLES
    c_config,            \* which ToolManager and tool objects the queries use
    c_pc,                \* where each query is
    c_pointer,           \* last_executed_tool of each ToolManager
    c_lists,             \* last_sources of each tool object
    c_read               \* what get_last_sources returned to each query

conc_vars == <<c_config, c_pc, c_pointer, c_lists, c_read>>

\* The Query Facade, its History Store, and the query it is serving.
VARIABLES
    f_pc,                \* where query() is
    f_text,              \* argument text
    f_prompt,            \* the query text handed to the orchestration run
    f_session,           \* argument session_id, None when absent
    f_history,           \* the history resolved for the run
    f_store,             \* History Store: the exchanges of each session
    f_answer,            \* what the orchestration run returned
    f_sources,           \* what the Facade got from get_last_sources
    f_calls,             \* the calls query() has made, in order
    f_result,            \* what query() returned
    f_dispatches,        \* tool dispatches of the current run
    f_queries            \* query() calls that have ended

fac_vars == <<f_pc, f_text, f_prompt, f_session, f_history, f_store, f_answer, f_sources,
              f_calls, f_result, f_dispatches, f_queries>>

gen_vars == <<pc, query, history, tools, tool_manager, system_content, messages,
              current_round, response, responses, block_i, tool_results, result,
              api_calls, dispatches>>

reg_vars == <<tm_tools, last_executed_tool, last_sources, recent_execute, tm_last>>

\* What the steps of generate_response leave alone, and the ToolManager's.
beyond_gen == <<reg_vars, runs, first, conc_vars, fac_vars>>

beyond_reg == <<gen_vars, self_base_params, runs, first, conc_vars>>

beyond_conc == <<gen_vars, self_base_params, runs, first, reg_vars, fac_vars>>

vars == <<pc, query, history, tools, tool_manager, system_content, messages,
          current_round, response, responses, block_i, tool_results, result,
          api_calls, dispatches, tm_tools, last_executed_tool, last_sources,
          recent_execute, tm_last, self_base_params, runs, first, c_config, c_pc,
          c_pointer, c_lists, c_read, f_pc, f_text, f_prompt, f_session, f_history, f_store,
          f_answer, f_sources, f_calls, f_result, f_dispatches, f_queries>>

\* ---------------------------------------------------------- pure functions

\* {**base, **extra}: the keys of both, extra's value where both have the key.
Merge(base, extra) ==
    [k \in DOMAIN base \cup DOMAIN extra |-> IF k \in DOMAIN extra THEN extra[k] ELSE base[k]]

\* No run of generate_response has ended yet.
NoRun == [none |-> TRUE]

\* _extract_text_response: text of the first text block, "" when there is none.
RECURSIVE FirstText(_, _)
FirstText(content, i) ==
    IF i > Len(content) THEN ""
    ELSE IF content[i].type = "text" THEN content[i].text
    ELSE FirstText(content, i + 1)


\* system_content of generate_response.
BuildSystem(h) ==
    IF h # "" THEN <<SYSTEM_PROMPT, "\n\nPrevious conversation:\n", h>>
    ELSE <<SYSTEM_PROMPT>>

\* The while condition, and the same with the cap off by one.
LoopCondition_OffByOne(r) == r <= max_rounds

LoopCondition(r) == r < max_rounds

\* The test of line 114 on a response; the variant looks for tool_use blocks
\* instead of reading the stop reason.
UsesTool_ByContent(resp) ==
    \E i \in DOMAIN resp.content : resp.content[i].type = "tool_use"

UsesTool(resp) == resp.stop_reason = "tool_use"

\* current_round += 1, and the same with the increment lost, or doubled.
NextRound_Stuck(r) == r

NextRound_Twice(r) == r + 2

NextRound(r) == r + 1

\* api_params of one loop iteration; the variant offers the tools on the first
\* call only.
LoopParams_FirstCallOnly(msgs, sys, tls) ==
    IF tls # <<>> /\ Len(msgs) = 1
    THEN Merge(self_base_params, [messages |-> msgs, system |-> sys,
                                  tools |-> tls, tool_choice |-> [type |-> "auto"]])
    ELSE Merge(self_base_params, [messages |-> msgs, system |-> sys])

LoopParams(msgs, sys, tls) ==
    IF tls # <<>>
    THEN Merge(self_base_params, [messages |-> msgs, system |-> sys,
                                  tools |-> tls, tool_choice |-> [type |-> "auto"]])
    ELSE Merge(self_base_params, [messages |-> msgs, system |-> sys])

\* final_params of the call after the loop; the variant builds them as the
\* loop does.
FinalParams_WithTools(msgs, sys) == LoopParams(msgs, sys, tools)

FinalParams(msgs, sys) == Merge(self_base_params, [messages |-> msgs, system |-> sys])

\* messages.append of the model's tool request.
AppendAssistant(msgs, content) ==
    Append(msgs, [role |-> "assistant", content |-> content])

\* messages.append of the tool results of one round; the variant appends one
\* user message per result.
AppendToolResults_OnePerResult(msgs, results) ==
    msgs \o [ i \in DOMAIN results |-> [role |-> "user", content |-> <<results[i]>>] ]

AppendToolResults(msgs, results) ==
    Append(msgs, [role |-> "user", content |-> results])

\* The tool_result dict appended for one tool_use block; one variant echoes the
\* tool's name in place of the block's id, the other drops the fault's text.
ToolResultFor_NameAsId(block, outcome) ==
    IF outcome.kind = "ok"
    THEN [type |-> "tool_result", tool_use_id |-> block.name,
          content |-> outcome.value]
    ELSE [type |-> "tool_result", tool_use_id |-> block.name,
          content |-> <<"Error executing tool: ", outcome.value>>,
          is_error |-> TRUE]

ToolResultFor_NoFaultText(block, outcome) ==
    IF outcome.kind = "ok"
    THEN [type |-> "tool_result", tool_use_id |-> block.id,
          content |-> outcome.value]
    ELSE [type |-> "tool_result", tool_use_id |-> block.id,
          content |-> <<"Error executing tool">>,
          is_error |-> TRUE]

ToolResultFor(block, outcome) ==
    IF outcome.kind = "ok"
    THEN [type |-> "tool_result", tool_use_id |-> block.id,
          content |-> outcome.value]
    ELSE [type |-> "tool_result", tool_use_id |-> block.id,
          content |-> <<"Error executing tool: ", outcome.value>>,
          is_error |-> TRUE]

\* The test "if tool_manager:" of line 128; the variant takes an executor for
\* granted.
HasExecutor_Always(tm) == TRUE

HasExecutor(tm) == tm

\* The test "if not tool_results:" of line 131; the variant never sees an
\* empty round.
NoResults_Never(results) == FALSE

NoResults(results) == results = <<>>

\* _extract_text_response, and a variant that reads the first block only.
ExtractText_FirstBlockOnly(resp) ==
    IF resp.content # <<>> /\ resp.content[1].type = "text"
    THEN resp.content[1].text
    ELSE "<no text attribute>"

_extract_text_response(resp) == FirstText(resp.content, 1)

\* The for loop of _execute_tool_round moves to the next content block; the
\* variant never leaves the block it is on.
NextBlock_Stuck(i) == i

NextBlock(i) == i + 1

Min(a, b) == IF a <= b THEN a ELSE b

\* ------------------------------------------------ tools and their registry
\* Python's None, where a string is expected.
None == "None"

\* Truth value of a string or None in a condition (if x: / if not x:).
Truthy(s) == s \notin {None, ""}

\* str(n) for the integers that occur.
Str(n) == <<"0", "1", "2", "3", "4", "5", "6", "7", "8", "9">>[n + 1]

\* A str is kept as the sequence of the pieces it is built from; sep.join.
RECURSIVE Join(_, _)
Join(parts, sep) ==
    IF parts = <<>> THEN <<>>
    ELSE IF Len(parts) = 1 THEN parts[1]
    ELSE parts[1] \o sep \o Join(Tail(parts), sep)

\* The tool objects made for the ToolManager: two CourseSearchTool, one
\* CourseOutlineTool, a Tool without a last_sources attribute, and two Tools
\* whose definition has no usable name.
ToolObjects == {"search_a", "search_b", "outline", "plain", "unnamed", "blank"}

SearchTools == {"search_a", "search_b"}

OutlineTools == {"outline"}

\* hasattr(tool, 'last_sources')
HasSources(t) == t \in SearchTools \cup OutlineTools

\* tool.get_tool_definition().get("name")
DefinitionName(t) ==
    CASE t \in SearchTools -> "search_course_content"
      [] t \in OutlineTools -> "get_course_outline"
      [] t = "plain" -> "plain_tool"
      [] t = "blank" -> ""
      [] OTHER -> None

\* Names execute_tool is called with.
ToolNames == {"search_course_content", "get_course_outline", "plain_tool", "unknown_tool"}

\* Keyword arguments execute_tool is called with (a tool_use block's input).
Kwargs ==
    { [query |-> "q"],
      [query |-> "q", course_name |-> "MCP"],
      [query |-> "q", lesson_number |-> 5],
      [query |-> "q", course_name |-> "MCP", lesson_number |-> 0],
      [query |-> "q", course_name |-> "MCP", lesson_number |-> 5],
      [course_name |-> "MCP"],
      [tool_name |-> "get_course_outline"] }

\* SearchResults.empty(error_msg), and SearchResults with no documents.
EmptyResults(err) == [documents |-> <<>>, metadata |-> <<>>, error |-> err]

\* A result set of three passages: with course and lesson, without a lesson,
\* without a course title.
FoundResults ==
    [documents |-> <<"doc1", "doc2", "doc3">>,
     metadata |-> << [course_title |-> "MCP", lesson_number |-> 1],
                     [course_title |-> "Chroma"],
                     [lesson_number |-> 0] >>,
     error |-> None]

\* What store.search does: raise (fault # ""), or return results.
SearchAnswers ==
    { [fault |-> "store is down", results |-> EmptyResults(None)],
      [fault |-> "", results |-> EmptyResults("Search error: no index")],
      [fault |-> "", results |-> EmptyResults(None)],
      [fault |-> "", results |-> FoundResults] }

\* SearchResults.is_empty()
is_empty(results) == Len(results.documents) = 0

\* store.get_lesson_link(course_title, lesson_num): a link, or None.
get_lesson_link(course_title, lesson_num) ==
    IF course_title = "MCP" THEN "https://example.com/mcp/lesson" ELSE None

\* Course metadata the catalog holds (besides <<>>, the dict without keys).
CourseMetadata ==
    { [title |-> "MCP", instructor |-> "Ana",
       course_link |-> "https://example.com/mcp",
       lessons_json |-> [valid |-> TRUE,
                         value |-> << [lesson_number |-> 0, lesson_title |-> "Intro"],
                                      [lesson_title |-> "Setup"] >>]],
      [title |-> "Chroma", lessons_json |-> [valid |-> FALSE, value |-> <<>>]],
      [instructor |-> "Bo", course_link |-> ""] }

\* What the store does for CourseOutlineTool.execute: _resolve_course_name
\* (a title, None, or a fault), then course_catalog.get (metadatas, or a fault).
OutlineAnswers ==
    { [resolve_fault |-> "resolver is down", resolved |-> None, get_fault |-> "", metadatas |-> <<>>],
      [resolve_fault |-> "", resolved |-> None, get_fault |-> "", metadatas |-> <<>>],
      [resolve_fault |-> "", resolved |-> "MCP", get_fault |-> "catalog is down", metadatas |-> <<>>],
      [resolve_fault |-> "", resolved |-> "MCP", get_fault |-> "", metadatas |-> <<>>] }
    \cup { [resolve_fault |-> "", resolved |-> "MCP", get_fault |-> "", metadatas |-> <<m>>] :
             m \in CourseMetadata \cup {<<>>} }

\* No answer of the store: the store was not asked.
NoAnswer == [none |-> TRUE]

\* How one call of a tool's execute ends: the str returned (exc = "") or the
\* exception that escapes it, whether self.last_sources was assigned and to
\* what, the return statement reached, what the store answered (asked) and
\* the store.get_lesson_link calls made (lookups).
Returns(text, branch) ==
    [text |-> text, exc |-> "", assigns |-> FALSE, sources |-> <<>>, branch |-> branch,
     asked |-> NoAnswer, lookups |-> <<>>]

ReturnsWithSources(text, sources, branch) ==
    [text |-> text, exc |-> "", assigns |-> TRUE, sources |-> sources, branch |-> branch,
     asked |-> NoAnswer, lookups |-> <<>>]

Raises(exc) ==
    [text |-> <<>>, exc |-> exc, assigns |-> FALSE, sources |-> <<>>, branch |-> "raise",
     asked |-> NoAnswer, lookups |-> <<>>]

\* _format_results: course_title and lesson_num of one passage.
CourseTitleOf(meta) == IF "course_title" \in DOMAIN meta THEN meta.course_title ELSE "unknown"

HasLesson(meta) == "lesson_number" \in DOMAIN meta

\* _format_results: the header and text of one passage.
FormattedPassage(doc, meta) ==
    <<"[", CourseTitleOf(meta)>>
        \o (IF HasLesson(meta) THEN <<" - Lesson ", Str(meta.lesson_number)>> ELSE <<>>)
        \o <<"]", "\n", doc>>

\* Variant: the lesson is left out of the source text.
SourceOf_TitleOnly(meta) ==
    [text |-> <<CourseTitleOf(meta)>>,
     url |-> IF HasLesson(meta)
             THEN get_lesson_link(CourseTitleOf(meta), meta.lesson_number)
             ELSE None]

\* _format_results: the source record of one passage.
SourceOf(meta) ==
    [text |-> <<CourseTitleOf(meta)>>
                \o (IF HasLesson(meta) THEN <<" - Lesson ", Str(meta.lesson_number)>> ELSE <<>>),
     url |-> IF HasLesson(meta)
             THEN get_lesson_link(CourseTitleOf(meta), meta.lesson_number)
             ELSE None]

\* CourseSearchTool._format_results
_format_results(results) ==
    LET n == Min(Len(results.documents), Len(results.metadata))
        formatted == [i \in 1..n |-> FormattedPassage(results.documents[i], results.metadata[i])]
        sources == [i \in 1..n |-> SourceOf(results.metadata[i])]
        looked == SelectSeq(SubSeq(results.metadata, 1, n), HasLesson)
        lookups == [i \in 1..Len(looked) |->
                      [course_title |-> CourseTitleOf(looked[i]),
                       lesson_num |-> looked[i].lesson_number]]
    IN [ReturnsWithSources(Join(formatted, <<"\n\n">>), sources, "found")
          EXCEPT !.lookups = lookups]

\* CourseSearchTool.execute: filter_info of the empty-result message.
filter_info(kwargs) ==
    (IF "course_name" \in DOMAIN kwargs /\ Truthy(kwargs.course_name)
     THEN <<" ", "in course '", kwargs.course_name, "'">> ELSE <<>>)
    \o (IF "lesson_number" \in DOMAIN kwargs /\ kwargs.lesson_number # 0
        THEN <<" ", "in lesson ", Str(kwargs.lesson_number)>> ELSE <<>>)

\* Variant: the empty-result test comes before the error test.
CourseSearchTool_execute_EmptyFirst(kwargs, ans) ==
    IF ~("query" \in DOMAIN kwargs
         /\ DOMAIN kwargs \subseteq {"query", "course_name", "lesson_number"})
    THEN Raises("TypeError")
    ELSE [(IF ans.fault # "" THEN Raises(ans.fault)
           ELSE IF is_empty(ans.results)
           THEN Returns(<<"No relevant content found">> \o filter_info(kwargs) \o <<".">>,
                        "empty")
           ELSE IF Truthy(ans.results.error) THEN Returns(<<ans.results.error>>, "error")
           ELSE _format_results(ans.results))
            EXCEPT !.asked = ans]

\* CourseSearchTool.execute(**kwargs), the store answering ans.
CourseSearchTool_execute(kwargs, ans) ==
    IF ~("query" \in DOMAIN kwargs
         /\ DOMAIN kwargs \subseteq {"query", "course_name", "lesson_number"})
    THEN Raises("TypeError")
    ELSE [(IF ans.fault # "" THEN Raises(ans.fault)
           ELSE IF Truthy(ans.results.error) THEN Returns(<<ans.results.error>>, "error")
           ELSE IF is_empty(ans.results)
           THEN Returns(<<"No relevant content found">> \o filter_info(kwargs) \o <<".">>,
                        "empty")
           ELSE _format_results(ans.results))
            EXCEPT !.asked = ans]

\* _format_outline: one lesson line.
LessonLine(lesson) ==
    <<"  ",
      IF "lesson_number" \in DOMAIN lesson THEN Str(lesson.lesson_number) ELSE "?",
      ". ",
      IF "lesson_title" \in DOMAIN lesson THEN lesson.lesson_title ELSE "Unknown">>

\* Variant: a record is kept for a course without a link too.
OutlineSources_Always(title, course_link) == << [text |-> <<title>>, url |-> course_link] >>

\* _format_outline: the value assigned to self.last_sources.
OutlineSources(title, course_link) ==
    IF Truthy(course_link)
    THEN << [text |-> <<title>>, url |-> course_link] >>
    ELSE <<>>

\* CourseOutlineTool._format_outline
_format_outline(metadata) ==
    LET title == IF "title" \in DOMAIN metadata THEN metadata.title ELSE "Unknown Course"
        instructor == IF "instructor" \in DOMAIN metadata THEN metadata.instructor
                      ELSE "Unknown Instructor"
        course_link == IF "course_link" \in DOMAIN metadata THEN metadata.course_link ELSE None
        lessons == IF "lessons_json" \in DOMAIN metadata /\ metadata.lessons_json.valid
                   THEN metadata.lessons_json.value ELSE <<>>
        sources == OutlineSources(title, course_link)
        outline_parts ==
            << IF Truthy(course_link)
               THEN <<"**Course:** ", "[", title, "](", course_link, ")">>
               ELSE <<"**Course:** ", title>>,
               <<"**Instructor:** ", instructor>>,
               <<>>,
               <<"**Lessons:**">> >>
            \o (IF lessons # <<>>
                THEN [i \in 1..Len(lessons) |-> LessonLine(lessons[i])]
                ELSE << <<"  No lessons available">> >>)
    IN ReturnsWithSources(Join(outline_parts, <<"\n">>), sources, "found")

\* Variant: the catalog lookup is made outside the try block.
CourseOutlineTool_execute_NoTry(kwargs, ans) ==
    IF DOMAIN kwargs # {"course_name"} THEN Raises("TypeError")
    ELSE [(IF ans.resolve_fault # "" THEN Raises(ans.resolve_fault)
           ELSE IF ~Truthy(ans.resolved)
           THEN Returns(<<"No course found matching '", kwargs.course_name, "'",
                          ". Please try a different course name.">>, "unresolved")
           ELSE IF ans.get_fault # "" THEN Raises(ans.get_fault)
           ELSE IF ans.metadatas = <<>> \/ DOMAIN ans.metadatas[1] = {}
           THEN Returns(<<"Course '", ans.resolved, "'", " found but no metadata available.">>,
                        "no_metadata")
           ELSE _format_outline(ans.metadatas[1]))
            EXCEPT !.asked = ans]

\* CourseOutlineTool.execute(**kwargs), the store answering ans.
CourseOutlineTool_execute(kwargs, ans) ==
    IF DOMAIN kwargs # {"course_name"} THEN Raises("TypeError")
    ELSE [(IF ans.resolve_fault # "" THEN Raises(ans.resolve_fault)
           ELSE IF ~Truthy(ans.resolved)
           THEN Returns(<<"No course found matching '", kwargs.course_name, "'",
                          ". Please try a different course name.">>, "unresolved")
           ELSE IF ans.get_fault # ""
           THEN Returns(<<"Error retrieving course outline: ", ans.get_fault>>, "lookup_fault")
           ELSE IF ans.metadatas = <<>> \/ DOMAIN ans.metadatas[1] = {}
           THEN Returns(<<"Course '", ans.resolved, "'", " found but no metadata available.">>,
                        "no_metadata")
           ELSE _format_outline(ans.metadatas[1]))
            EXCEPT !.asked = ans]

\* Every way tool.execute(**kwargs) can end, over what the store may answer.
Executions(t, kwargs) ==
    IF t \in SearchTools THEN { CourseSearchTool_execute(kwargs, a) : a \in SearchAnswers }
    ELSE IF t \in OutlineTools THEN { CourseOutlineTool_execute(kwargs, a) : a \in OutlineAnswers }
    ELSE { Returns(<<"done">>, "plain") }

\* self.tools, a dict, as the sequence of its items in insertion order.
Keys(d) == { d[i].name : i \in DOMAIN d }

Get(d, k) == d[CHOOSE i \in DOMAIN d : d[i].name = k].tool

\* Variant: every assignment adds an item, as appending to a list would.
Put_AlwaysAppends(d, k, v) == Append(d, [name |-> k, tool |-> v])

Put(d, k, v) ==
    IF k \in Keys(d)
    THEN [i \in DOMAIN d |-> IF d[i].name = k THEN [name |-> k, tool |-> v] ELSE d[i]]
    ELSE Append(d, [name |-> k, tool |-> v])

\* The tools registered now, in dict order: self.tools.values().
Values(d) == [i \in DOMAIN d |-> d[i].tool]

NoArgs == [none |-> TRUE]

\* The record kept of one ToolManager call.
Call(op, name, kwargs, out) ==
    [op |-> op, name |-> name, kwargs |-> kwargs, text |-> out.text, exc |-> out.exc,
     made |-> IF out.assigns THEN out.sources ELSE <<>>, branch |-> out.branch,
     sources |-> <<>>, asked |-> out.asked, lookups |-> out.lookups]

Done == Returns(<<>>, "done")

\* ToolManager.__init__ and the tools' __init__.
RegInit ==
    /\ tm_tools = <<>>
    /\ last_executed_tool = None
    /\ last_sources = [t \in { o \in ToolObjects : HasSources(o) } |-> <<>>]
    /\ recent_execute = None
    /\ tm_last = Call("__init__", None, NoArgs, Done)

\* The two queries.
Threads == {1, 2}

\* How the queries' objects are set up: each query has its own ToolManager
\* with its own tool, or both use one ToolManager, or each has its own
\* ToolManager and the two hold the same tool object.
Configs == {"independent", "shared_manager", "shared_tool"}

\* The ToolManager a query uses.
ManagerOf(config, q) == IF config = "shared_manager" THEN 1 ELSE q

\* self.tools of a ToolManager.
ToolsOf(config, m) ==
    << [name |-> "search_course_content",
        tool |-> IF config = "independent" /\ m = 2 THEN "search_b" ELSE "search_a"] >>

\* Variant: last_sources is an attribute of the class, one list for all
\* CourseSearchTool objects.
ListOf_ClassAttribute(t) == "search_a"

\* Where a tool object's last_sources is kept: in the object (set in __init__).
ListOf(t) == t

\* c_lists as the tools see it: tool object -> its last_sources.
ListsSeen == [t \in SearchTools |-> c_lists[ListOf(t)]]

Unread == << [text |-> <<"unread">>, url |-> None, by |-> 0] >>

ConcInit ==
    /\ c_config = "independent"
    /\ c_pc = [q \in Threads |-> "idle"]
    /\ c_pointer = [m \in Threads |-> None]
    /\ c_lists = [t \in SearchTools |-> <<>>]
    /\ c_read = [q \in Threads |-> Unread]

\* ------------------------------------------------------ the Query Facade

\* query() calls made on one Facade, one after another.
MaxQueries == 2

\* Tool dispatches the Orchestrator makes in one run.
MaxDispatches == 2

\* The tools the Facade registers when it is constructed.
FacTools == <<"search_a", "outline">>

SessionIds == {"session_456"}

FacTexts == {"What is MCP?"}

FacAnswers == {"Response"}

\* An entry of the Facade's call record; out is what get_last_sources
\* returned, or the source records an execute_tool call's tool made, and
\* empty for the other calls.
FacCall(op, out) == [op |-> op, out |-> out]

\* History Store get_history: the session's exchanges, none when it has none.
get_history(store, session_id) ==
    IF store[session_id] = <<>> THEN None ELSE store[session_id]

\* History Store append_exchange.
append_exchange(store, session_id, question, answer) ==
    [store EXCEPT ![session_id] = Append(@, [question |-> question, answer |-> answer])]

NoPair == [none |-> TRUE]

\* The query text the Facade makes of the caller's text for the run.
Prompt(text) == <<"Answer this question about course materials: ", text>>

FacInit ==
    /\ f_pc = "new"
    /\ f_text = None
    /\ f_prompt = None
    /\ f_session = None
    /\ f_history = None
    /\ f_store = [sid \in SessionIds |-> <<>>]
    /\ f_answer = None
    /\ f_sources = <<>>
    /\ f_calls = <<>>
    /\ f_result = NoPair
    /\ f_dispatches = 0
    /\ f_queries = 0

\* ------------------------------------------------------------------- state

Init ==
    /\ pc = "idle"
    /\ query = ""
    /\ history = ""
    /\ tools = <<>>
    /\ tool_manager = FALSE
    /\ system_content = <<>>
    /\ messages = <<>>
    /\ current_round = 0
    /\ response = NoResponse
    /\ responses = <<>>
    /\ block_i = 0
    /\ tool_results = <<>>
    /\ result = NoResult
    /\ api_calls = <<>>
    /\ dispatches = <<>>
    /\ self_base_params = base_params
    /\ runs = 0
    /\ first = NoRun
    /\ RegInit
    /\ ConcInit
    /\ FacInit

\* generate_response is entered: lines 82-94.
Begin ==
    /\ pc = "idle"
    /\ \E q \in Queries, h \in Histories, tl \in ToolLists, tm \in BOOLEAN :
        /\ query' = q
        /\ history' = h
        /\ tools' = tl
        /\ tool_manager' = tm
        /\ system_content' = BuildSystem(h)
        /\ messages' = << [role |-> "user", content |-> q] >>
    /\ current_round' = 0
    /\ pc' = "loop"
    /\ UNCHANGED <<response, responses, block_i, tool_results, result, api_calls,
                   dispatches>>
    /\ UNCHANGED self_base_params
    /\ UNCHANGED beyond_gen

\* Variant: api_params is self.base_params itself, not a copy of it, so the
\* keys added for the call stay in the generator.
LoopCall_SharesParams ==
    /\ pc = "loop"
    /\ LoopCondition(current_round)
    /\ \E resp \in Responses :
        /\ api_calls' = Append(api_calls, LoopParams(messages, system_content, tools))
        /\ response' = resp
        /\ responses' = Append(responses, resp)
        /\ IF ~UsesTool(resp)
           THEN /\ result' = _extract_text_response(resp)
                /\ pc' = "return_116"
                /\ UNCHANGED <<current_round, messages, block_i, tool_results>>
           ELSE /\ current_round' = NextRound(current_round)
                /\ messages' = AppendAssistant(messages, resp.content)
                /\ IF HasExecutor(tool_manager)
                   THEN /\ pc' = "exec"
                        /\ block_i' = 1
                        /\ tool_results' = <<>>
                        /\ UNCHANGED result
                   ELSE /\ result' = NoToolManagerError
                        /\ pc' = "return_142"
                        /\ UNCHANGED <<block_i, tool_results>>
    /\ UNCHANGED <<query, history, tools, tool_manager, system_content, dispatches>>
    /\ self_base_params' = LoopParams(messages, system_content, tools)
    /\ UNCHANGED beyond_gen

\* One pass of the while loop up to the next suspension point: the call of
\* line 111 returns a response, lines 113-142 act on it.
LoopCall ==
    /\ pc = "loop"
    /\ LoopCondition(current_round)
    /\ \E resp \in Responses :
        /\ api_calls' = Append(api_calls, LoopParams(messages, system_content, tools))
        /\ response' = resp
        /\ responses' = Append(responses, resp)
        /\ IF ~UsesTool(resp)
           THEN /\ result' = _extract_text_response(resp)
                /\ pc' = "return_116"
                /\ UNCHANGED <<current_round, messages, block_i, tool_results>>
           ELSE /\ current_round' = NextRound(current_round)
                /\ messages' = AppendAssistant(messages, resp.content)
                /\ IF HasExecutor(tool_manager)
                   THEN /\ pc' = "exec"
                        /\ block_i' = 1
                        /\ tool_results' = <<>>
                        /\ UNCHANGED result
                   ELSE /\ result' = NoToolManagerError
                        /\ pc' = "return_142"
                        /\ UNCHANGED <<block_i, tool_results>>
    /\ UNCHANGED <<query, history, tools, tool_manager, system_content, dispatches>>
    /\ UNCHANGED self_base_params
    /\ UNCHANGED beyond_gen

\* A variant of LoopCallFault that catches the fault and answers with its text.
LoopCallFault_Caught ==
    /\ pc = "loop"
    /\ LoopCondition(current_round)
    /\ api_calls' = Append(api_calls, LoopParams(messages, system_content, tools))
    /\ pc' = "return_116"
    /\ result' = "Error: service unavailable"
    /\ UNCHANGED <<query, history, tools, tool_manager, system_content, messages,
                   current_round, response, responses, block_i, tool_results,
                   dispatches>>
    /\ UNCHANGED self_base_params
    /\ UNCHANGED beyond_gen

\* The call of line 111 raises: nothing catches it.
LoopCallFault ==
    /\ pc = "loop"
    /\ LoopCondition(current_round)
    /\ api_calls' = Append(api_calls, LoopParams(messages, system_content, tools))
    /\ pc' = "raise_111"
    /\ UNCHANGED <<query, history, tools, tool_manager, system_content, messages,
                   current_round, response, responses, block_i, tool_results,
                   result, dispatches>>
    /\ UNCHANGED self_base_params
    /\ UNCHANGED beyond_gen

\* A variant of ExecBlock in which a raised dispatch ends the batch.
ExecBlock_AbortsOnFault ==
    /\ pc = "exec"
    /\ block_i <= Len(response.content)
    /\ LET block == response.content[block_i] IN
        IF block.type = "tool_use"
        THEN \E outcome \in ToolOutcomes :
                /\ dispatches' = Append(dispatches,
                        [name |-> block.name, input |-> block.input,
                         outcome |-> outcome])
                /\ tool_results' = Append(tool_results, ToolResultFor(block, outcome))
                /\ block_i' = IF outcome.kind = "raise"
                              THEN Len(response.content) + 1
                              ELSE NextBlock(block_i)
        ELSE /\ UNCHANGED <<dispatches, tool_results>>
             /\ block_i' = NextBlock(block_i)
    /\ UNCHANGED <<pc, query, history, tools, tool_manager, system_content,
                   messages, current_round, response, responses, result, api_calls>>
    /\ UNCHANGED self_base_params
    /\ UNCHANGED beyond_gen

\* One iteration of the for loop of _execute_tool_round (lines 170-190): a
\* tool_use block is dispatched and its outcome, returned or raised, becomes a
\* tool_result; any other block is passed over.
ExecBlock ==
    /\ pc = "exec"
    /\ block_i <= Len(response.content)
    /\ LET block == response.content[block_i] IN
        IF block.type = "tool_use"
        THEN \E outcome \in ToolOutcomes :
                /\ dispatches' = Append(dispatches,
                        [name |-> block.name, input |-> block.input,
                         outcome |-> outcome])
                /\ tool_results' = Append(tool_results, ToolResultFor(block, outcome))
        ELSE UNCHANGED <<dispatches, tool_results>>
    /\ block_i' = NextBlock(block_i)
    /\ UNCHANGED <<pc, query, history, tools, tool_manager, system_content,
                   messages, current_round, response, responses, result, api_calls>>
    /\ UNCHANGED self_base_params
    /\ UNCHANGED beyond_gen

\* _execute_tool_round returns (line 192); lines 131-139 act on its result.
EndRound ==
    /\ pc = "exec"
    /\ block_i > Len(response.content)
    /\ IF NoResults(tool_results)
       THEN /\ result' = NoToolsExecutedError
            /\ pc' = "return_133"
            /\ UNCHANGED messages
       ELSE /\ messages' = AppendToolResults(messages, tool_results)
            /\ pc' = "loop"
            /\ UNCHANGED result
    /\ UNCHANGED <<query, history, tools, tool_manager, system_content,
                   current_round, response, responses, block_i, tool_results,
                   api_calls, dispatches>>
    /\ UNCHANGED self_base_params
    /\ UNCHANGED beyond_gen

\* The variant of FinalCall keeps a tool request of the final response in the
\* conversation.
FinalCall_Appends ==
    /\ pc = "loop"
    /\ ~LoopCondition(current_round)
    /\ \E resp \in Responses :
        /\ api_calls' = Append(api_calls, FinalParams(messages, system_content))
        /\ response' = resp
        /\ responses' = Append(responses, resp)
        /\ result' = _extract_text_response(resp)
        /\ messages' = IF UsesTool(resp) THEN AppendAssistant(messages, resp.content)
                       ELSE messages
    /\ pc' = "return_153"
    /\ UNCHANGED <<query, history, tools, tool_manager, system_content,
                   current_round, block_i, tool_results, dispatches>>
    /\ UNCHANGED self_base_params
    /\ UNCHANGED beyond_gen

\* The loop condition is false: the call without tools, lines 144-153.
FinalCall ==
    /\ pc = "loop"
    /\ ~LoopCondition(current_round)
    /\ \E resp \in Responses :
        /\ api_calls' = Append(api_calls, FinalParams(messages, system_content))
        /\ response' = resp
        /\ responses' = Append(responses, resp)
        /\ result' = _extract_text_response(resp)
    /\ pc' = "return_153"
    /\ UNCHANGED <<query, history, tools, tool_manager, system_content, messages,
                   current_round, block_i, tool_results, dispatches>>
    /\ UNCHANGED self_base_params
    /\ UNCHANGED beyond_gen

\* The call of line 152 raises.
FinalCallFault ==
    /\ pc = "loop"
    /\ ~LoopCondition(current_round)
    /\ api_calls' = Append(api_calls, FinalParams(messages, system_content))
    /\ pc' = "raise_152"
    /\ UNCHANGED <<query, history, tools, tool_manager, system_content, messages,
                   current_round, response, responses, block_i, tool_results,
                   result, dispatches>>
    /\ UNCHANGED self_base_params
    /\ UNCHANGED beyond_gen

\* ---------------------------------------------------- ToolManager's methods

\* Variant: the name is not looked at before the tool is stored.
register_tool_NoNameCheck(t) ==
    /\ tm_tools' = Put(tm_tools, DefinitionName(t), t)
    /\ tm_last' = Call("register_tool", t, NoArgs, Done)
    /\ UNCHANGED <<last_executed_tool, last_sources, recent_execute>>
    /\ UNCHANGED beyond_reg

\* ToolManager.register_tool(tool)
register_tool(t) ==
    LET tool_name == DefinitionName(t) IN
    /\ IF ~Truthy(tool_name)
       THEN /\ tm_last' = Call("register_tool", t, NoArgs,
                               Raises("ValueError: Tool must have a 'name' in its definition"))
            /\ UNCHANGED tm_tools
       ELSE /\ tm_tools' = Put(tm_tools, tool_name, t)
            /\ tm_last' = Call("register_tool", t, NoArgs, Done)
    /\ UNCHANGED <<last_executed_tool, last_sources, recent_execute>>
    /\ UNCHANGED beyond_reg

\* Variant: a name that is not in self.tools is an error raised.
NotFound_Raises(tool_name) == Raises("KeyError")

\* execute_tool: what is returned for a name that is not in self.tools.
NotFound(tool_name) == Returns(<<"Tool '", tool_name, "' ", "not found">>, "not_found")

\* Variant: the name is recorded before it is looked up.
execute_tool_RecordsFirst(tool_name, kwargs) ==
    IF "tool_name" \in DOMAIN kwargs
    THEN /\ tm_last' = Call("execute_tool", tool_name, kwargs, Raises("TypeError"))
         /\ UNCHANGED <<tm_tools, last_executed_tool, last_sources, recent_execute>>
         /\ UNCHANGED beyond_reg
    ELSE IF tool_name \notin Keys(tm_tools)
    THEN /\ tm_last' = Call("execute_tool", tool_name, kwargs, NotFound(tool_name))
         /\ last_executed_tool' = tool_name
         /\ UNCHANGED <<tm_tools, last_sources, recent_execute>>
         /\ UNCHANGED beyond_reg
    ELSE \E out \in Executions(Get(tm_tools, tool_name), kwargs) :
         /\ last_executed_tool' = tool_name
         /\ recent_execute' = tool_name
         /\ last_sources' = IF out.assigns
                            THEN [last_sources EXCEPT ![Get(tm_tools, tool_name)] = out.sources]
                            ELSE last_sources
         /\ tm_last' = Call("execute_tool", tool_name, kwargs, out)
         /\ UNCHANGED tm_tools
         /\ UNCHANGED beyond_reg

\* Variant: a name that is not found clears what was recorded.
execute_tool_ForgetsOnMiss(tool_name, kwargs) ==
    IF "tool_name" \in DOMAIN kwargs
    THEN /\ tm_last' = Call("execute_tool", tool_name, kwargs, Raises("TypeError"))
         /\ UNCHANGED <<tm_tools, last_executed_tool, last_sources, recent_execute>>
         /\ UNCHANGED beyond_reg
    ELSE IF tool_name \notin Keys(tm_tools)
    THEN /\ tm_last' = Call("execute_tool", tool_name, kwargs, NotFound(tool_name))
         /\ last_executed_tool' = None
         /\ recent_execute' = None
         /\ UNCHANGED <<tm_tools, last_sources>>
         /\ UNCHANGED beyond_reg
    ELSE \E out \in Executions(Get(tm_tools, tool_name), kwargs) :
         /\ last_executed_tool' = tool_name
         /\ recent_execute' = tool_name
         /\ last_sources' = IF out.assigns
                            THEN [last_sources EXCEPT ![Get(tm_tools, tool_name)] = out.sources]
                            ELSE last_sources
         /\ tm_last' = Call("execute_tool", tool_name, kwargs, out)
         /\ UNCHANGED tm_tools
         /\ UNCHANGED beyond_reg

\* Variant: the name is recorded once the tool has returned.
execute_tool_RecordsAfter(tool_name, kwargs) ==
    IF "tool_name" \in DOMAIN kwargs
    THEN /\ tm_last' = Call("execute_tool", tool_name, kwargs, Raises("TypeError"))
         /\ UNCHANGED <<tm_tools, last_executed_tool, last_sources, recent_execute>>
         /\ UNCHANGED beyond_reg
    ELSE IF tool_name \notin Keys(tm_tools)
    THEN /\ tm_last' = Call("execute_tool", tool_name, kwargs, NotFound(tool_name))
         /\ UNCHANGED <<tm_tools, last_executed_tool, last_sources, recent_execute>>
         /\ UNCHANGED beyond_reg
    ELSE \E out \in Executions(Get(tm_tools, tool_name), kwargs) :
         /\ last_executed_tool' = IF out.exc = "" THEN tool_name ELSE last_executed_tool
         /\ recent_execute' = IF out.exc = "" THEN tool_name ELSE recent_execute
         /\ last_sources' = IF out.assigns
                            THEN [last_sources EXCEPT ![Get(tm_tools, tool_name)] = out.sources]
                            ELSE last_sources
         /\ tm_last' = Call("execute_tool", tool_name, kwargs, out)
         /\ UNCHANGED tm_tools
         /\ UNCHANGED beyond_reg

\* ToolManager.execute_tool(tool_name, **kwargs). A keyword argument called
\* tool_name collides with the parameter: the call raises TypeError before
\* the body runs.
execute_tool(tool_name, kwargs) ==
    IF "tool_name" \in DOMAIN kwargs
    THEN /\ tm_last' = Call("execute_tool", tool_name, kwargs, Raises("TypeError"))
         /\ UNCHANGED <<tm_tools, last_executed_tool, last_sources, recent_execute>>
         /\ UNCHANGED beyond_reg
    ELSE IF tool_name \notin Keys(tm_tools)
    THEN /\ tm_last' = Call("execute_tool", tool_name, kwargs, NotFound(tool_name))
         /\ UNCHANGED <<tm_tools, last_executed_tool, last_sources, recent_execute>>
         /\ UNCHANGED beyond_reg
    ELSE \E out \in Executions(Get(tm_tools, tool_name), kwargs) :
         /\ last_executed_tool' = tool_name
         /\ recent_execute' = tool_name
         /\ last_sources' = IF out.assigns
                            THEN [last_sources EXCEPT ![Get(tm_tools, tool_name)] = out.sources]
                            ELSE last_sources
         /\ tm_last' = Call("execute_tool", tool_name, kwargs, out)
         /\ UNCHANGED tm_tools
         /\ UNCHANGED beyond_reg

\* get_last_sources, the fallback: the first registered tool, in dict order,
\* that has a non-empty last_sources.
RECURSIVE FirstNonEmpty(_, _)
FirstNonEmpty(ts, ls) ==
    IF ts = <<>> THEN <<>>
    ELSE IF HasSources(Head(ts)) /\ ls[Head(ts)] # <<>> THEN ls[Head(ts)]
    ELSE FirstNonEmpty(Tail(ts), ls)

\* Variant: the scan alone, whatever tool was executed last.
LastSources_ScanOnly(d, ptr, ls) == FirstNonEmpty(Values(d), ls)

\* Variant: the fallback scans the tools from the last registered one.
LastSources_ScanFromEnd(d, ptr, ls) ==
    IF Truthy(ptr) /\ ptr \in Keys(d) /\ HasSources(Get(d, ptr))
    THEN ls[Get(d, ptr)]
    ELSE FirstNonEmpty([i \in DOMAIN d |-> d[Len(d) + 1 - i].tool], ls)

\* The value ToolManager.get_last_sources returns.
LastSources(d, ptr, ls) ==
    IF Truthy(ptr) /\ ptr \in Keys(d) /\ HasSources(Get(d, ptr))
    THEN ls[Get(d, ptr)]
    ELSE FirstNonEmpty(Values(d), ls)

\* ToolManager.get_last_sources()
get_last_sources ==
    /\ tm_last' = [Call("get_last_sources", None, NoArgs, Done) EXCEPT
                     !.sources = LastSources(tm_tools, last_executed_tool, last_sources)]
    /\ UNCHANGED <<tm_tools, last_executed_tool, last_sources, recent_execute>>
    /\ UNCHANGED beyond_reg

\* Variant: only the first registered tool's list is emptied.
ResetLists_FirstToolOnly(d, ls) ==
    [t \in DOMAIN ls |-> IF d # <<>> /\ t = d[1].tool THEN <<>> ELSE ls[t]]

\* reset_sources: last_sources of every tool after the loop over self.tools.
ResetLists(d, ls) ==
    [t \in DOMAIN ls |-> IF \E i \in DOMAIN d : d[i].tool = t THEN <<>> ELSE ls[t]]

\* ToolManager.reset_sources()
reset_sources ==
    /\ last_sources' = ResetLists(tm_tools, last_sources)
    /\ last_executed_tool' = None
    /\ recent_execute' = None
    /\ tm_last' = Call("reset_sources", None, NoArgs, Done)
    /\ UNCHANGED tm_tools
    /\ UNCHANGED beyond_reg

Next ==
    \/ Begin
    \/ LoopCall
    \/ LoopCallFault
    \/ ExecBlock
    \/ EndRound
    \/ FinalCall
    \/ FinalCallFault

Spec == Init /\ [][Next]_vars

\* Every Completion Service call and every tool dispatch returns or raises, so
\* a step that can be taken is taken.
LiveSpec == Spec /\ WF_vars(Next)

\* Any sequence of calls on one ToolManager.
RegNext ==
    \/ \E t \in ToolObjects : register_tool(t) /\ UNCHANGED fac_vars
    \/ \E tool_name \in ToolNames, kwargs \in Kwargs :
          execute_tool(tool_name, kwargs) /\ UNCHANGED fac_vars
    \/ get_last_sources /\ UNCHANGED fac_vars
    \/ reset_sources /\ UNCHANGED fac_vars

RegSpec == Init /\ [][RegNext]_vars

\* ----------------------------------------------------- derived definitions

Returned == pc \in {"return_116", "return_133", "return_142", "return_153"}

Raised == pc \in {"raise_111", "raise_152"}

Terminal == Returned \/ Raised

Running == pc \in {"loop", "exec"}

\* The tool_use blocks of a content list, in order.
RECURSIVE ToolUsesOf(_)
ToolUsesOf(content) ==
    IF content = <<>> THEN <<>>
    ELSE (IF Head(content).type = "tool_use" THEN <<Head(content)>> ELSE <<>>)
         \o ToolUsesOf(Tail(content))

TypeOK ==
    /\ pc \in {"idle", "loop", "exec", "return_116", "return_133", "return_142",
               "return_153", "raise_111", "raise_152"}
    /\ current_round \in 0..max_rounds
    /\ Len(api_calls) <= max_rounds + 1

\* The number of responses of the run whose stop reason is tool_use.
RoundsUsed == Cardinality({ i \in DOMAIN responses : responses[i].stop_reason = "tool_use" })

SentinelReturn == pc \in {"return_133", "return_142"}

\* ------------------------------------------------------------------ claims

\* C1: whatever the Completion Service and the tools do, one run of
\* generate_response makes at most max_rounds + 1 = 3 Completion Service calls.
C1_AtMostThreeCalls ==
    /\ max_rounds + 1 = 3
    /\ Len(api_calls) <= max_rounds + 1

\* A run that made all three calls and returned.
C1_Witness == Returned /\ Len(api_calls) = 3

\* C2: when every call and every dispatch returns or raises, a run that has
\* started reaches a terminal outcome (a return or a propagated Completion
\* Service fault), also when the model requests tools on every call.
C2_Terminates == Running ~> Terminal

\* A run that ended although every one of its responses requested tools.
C2_Witness ==
    /\ pc = "return_153"
    /\ Len(responses) = 3
    /\ \A i \in DOMAIN responses : responses[i].stop_reason = "tool_use"

\* C3, as stated: at the end of a run the number of Completion Service calls is
\* min(rounds_actually_used, max_rounds) + (1 if max_rounds was reached with
\* tool intent, else 0).
C3_AsStated ==
    Terminal =>
        Len(api_calls) = Min(RoundsUsed, max_rounds)
                         + (IF RoundsUsed >= max_rounds THEN 1 ELSE 0)

\* C3, amended: at the end of a run the number of Completion Service calls is
\* min(rounds_actually_used, max_rounds) + 1, or min(rounds_actually_used,
\* max_rounds) + 0 when the run returned one of the two sentinel error strings.
C3_CallCount ==
    Terminal =>
        Len(api_calls) = Min(RoundsUsed, max_rounds)
                         + (IF SentinelReturn THEN 0 ELSE 1)

\* One tool round, then an answer: two calls.
C3_Witness == pc = "return_116" /\ RoundsUsed = 1 /\ Len(api_calls) = 2

\* What execute_tool was called with, dispatch by dispatch.
DispatchArgs ==
    [ i \in DOMAIN dispatches |->
        [name |-> dispatches[i].name, input |-> dispatches[i].input] ]

\* The execute_tool arguments the tool_use blocks of a content list ask for.
ArgsOf(content) ==
    LET tu == ToolUsesOf(content) IN
    [ i \in DOMAIN tu |-> [name |-> tu[i].name, input |-> tu[i].input] ]

\* The arguments asked for by the first k responses of the run.
RECURSIVE ArgsOfFirst(_)
ArgsOfFirst(k) ==
    IF k = 0 THEN <<>> ELSE ArgsOfFirst(k - 1) \o ArgsOf(responses[k].content)

\* The text a response carries: that of its first text block, or "".
TextOf(resp) ==
    LET texts == { i \in DOMAIN resp.content : resp.content[i].type = "text" } IN
    IF texts = {} THEN ""
    ELSE resp.content[CHOOSE i \in texts : \A j \in texts : i <= j].text

\* The keyword arguments of the most recent Completion Service call.
LastCall(calls) == calls[Len(calls)]

\* A step in which a Completion Service call is made.
CallMade == Len(api_calls') = Len(api_calls) + 1

\* C4: with an executor supplied, if the first response whose stop reason is
\* not tool_use is the (k+1)-th of the run, k in {0, 1}, the run has made
\* exactly k+1 calls, has dispatched exactly the tool_use blocks of the first k
\* responses, in order, and has returned the text of the (k+1)-th response.
C4_EarlyAnswer ==
    \A k \in {0, 1} :
        ( /\ tool_manager
          /\ Len(responses) >= k + 1
          /\ \A j \in 1..k : responses[j].stop_reason = "tool_use"
          /\ responses[k + 1].stop_reason # "tool_use" )
        => /\ pc = "return_116"
           /\ Len(api_calls) = k + 1
           /\ DispatchArgs = ArgsOfFirst(k)
           /\ result = TextOf(responses[k + 1])

\* One tool request with one tool_use block, then an answer.
C4_Witness ==
    /\ tool_manager
    /\ Len(responses) = 2
    /\ responses[1].stop_reason = "tool_use"
    /\ responses[2].stop_reason # "tool_use"
    /\ Len(api_calls) = 2
    /\ Len(dispatches) = 1
    /\ result = "Answer"

\* C5: the Completion Service call made when the round counter equals
\* max_rounds carries neither tool definitions nor a tool_choice, whether or
\* not tools were supplied to the run.
C5_FinalCallWithoutTools ==
    [][ (CallMade /\ current_round = max_rounds)
            => /\ "tools" \notin DOMAIN LastCall(api_calls')
               /\ "tool_choice" \notin DOMAIN LastCall(api_calls') ]_vars

\* Tools were supplied and offered on both loop calls; the third call has none.
C5_Witness ==
    /\ tools # <<>>
    /\ Len(api_calls) = 3
    /\ "tools" \in DOMAIN api_calls[1]
    /\ "tools" \in DOMAIN api_calls[2]
    /\ "tools" \notin DOMAIN api_calls[3]
    /\ "tool_choice" \notin DOMAIN api_calls[3]

\* C6, as stated: whenever the round counter has reached max_rounds, the run
\* makes exactly one more call (max_rounds + 1 in all) and returns that call's
\* text, without dispatching or appending its response.
C6_AsStated ==
    (Returned /\ current_round = max_rounds)
        => /\ Len(api_calls) = max_rounds + 1
           /\ result = TextOf(responses[Len(responses)])
           /\ Len(messages) = 2 * max_rounds + 1
           /\ DispatchArgs = ArgsOfFirst(max_rounds)

\* C6, amended: when the loop ends with the round counter at max_rounds (both
\* tool rounds appended their results), exactly one more call is made; when it
\* returns, its text is returned and its response is neither dispatched nor
\* appended, tool_use or not, so only the first 2 responses are dispatched.  A
\* second tool round without a tool result returns the sentinel string, with
\* no further call.
C6_ForcedFinalCall ==
    /\ (pc = "loop" /\ current_round = max_rounds)
            => Len(api_calls) = max_rounds
    /\ (Terminal /\ current_round = max_rounds /\ pc # "return_133")
            => /\ pc \in {"return_153", "raise_152"}
               /\ Len(api_calls) = max_rounds + 1
    /\ pc = "return_133" => Len(api_calls) = current_round
    /\ Len(responses) = max_rounds + 1
            => /\ pc = "return_153"
               /\ result = TextOf(responses[max_rounds + 1])
               /\ Len(messages) = 2 * max_rounds + 1
               /\ messages = api_calls[max_rounds + 1].messages
               /\ DispatchArgs = ArgsOfFirst(max_rounds)

\* The forced final response asks for a tool and is not obeyed.
C6_Witness ==
    /\ pc = "return_153"
    /\ responses[3].stop_reason = "tool_use"
    /\ ToolUsesOf(responses[3].content) # <<>>
    /\ Len(messages) = 5
    /\ Len(dispatches) = Len(ArgsOfFirst(2))

\* C7: when a non-empty tool list is supplied, every Completion Service call
\* made while the round counter is below max_rounds carries the tool
\* definitions and tool_choice auto: the first call and the call after one
\* tool round alike.
C7_LoopCallsOfferTools ==
    [][ (CallMade /\ current_round < max_rounds /\ tools # <<>>)
            => /\ "tools" \in DOMAIN LastCall(api_calls')
               /\ "tool_choice" \in DOMAIN LastCall(api_calls')
               /\ LastCall(api_calls').tools = tools
               /\ LastCall(api_calls').tool_choice = [type |-> "auto"] ]_vars

\* The call after one tool round still offers the tools.
C7_Witness ==
    /\ tools # <<>>
    /\ current_round = 1
    /\ Len(api_calls) = 2
    /\ "tools" \in DOMAIN api_calls[2]
    /\ api_calls[2].tool_choice = [type |-> "auto"]

\* C8: the conversation starts as one user message holding the query and
\* grows by one assistant and one user message per completed tool round: the
\* k-th Completion Service call receives exactly 2(k-1)+1 messages whose roles
\* alternate user, assistant, ..., user.
C8_ConversationShape ==
    \A k \in DOMAIN api_calls :
        LET m == api_calls[k].messages IN
        /\ Len(m) = 2 * (k - 1) + 1
        /\ m[1] = [role |-> "user", content |-> query]
        /\ \A i \in DOMAIN m :
                m[i].role = IF i % 2 = 1 THEN "user" ELSE "assistant"

\* The third call of a run, with its five messages.
C8_Witness ==
    /\ Len(api_calls) = 3
    /\ Len(api_calls[3].messages) = 5
    /\ api_calls[3].messages[4].role = "assistant"
    /\ api_calls[3].messages[5].role = "user"

\* C9: in every conversation passed to the Completion Service, a user message
\* appended by a tool round holds only tool_result blocks, one per tool_use
\* block of the assistant message right before it, in the same order and with
\* that block's id; the other blocks of the assistant message give no result.
C9_ResultsMatchRequests ==
    \A k \in DOMAIN api_calls :
        LET m == api_calls[k].messages IN
        \A i \in DOMAIN m :
            (i > 1 /\ m[i].role = "user")
                => LET tu == ToolUsesOf(m[i - 1].content)
                       c  == m[i].content
                   IN /\ m[i - 1].role = "assistant"
                      /\ Len(c) = Len(tu)
                      /\ \A j \in DOMAIN c :
                            /\ c[j].type = "tool_result"
                            /\ c[j].tool_use_id = tu[j].id

\* Two tool_use blocks answered in their order, and a text block beside a
\* tool_use block that got no result.
C9_Witness ==
    /\ Len(api_calls) = 3
    /\ LET m == api_calls[3].messages IN
        /\ Len(m[2].content) = 2
        /\ m[2].content[1].type = "tool_use"
        /\ m[2].content[2].type = "tool_use"
        /\ m[3].content[1].tool_use_id = "toolu_2"
        /\ m[3].content[2].tool_use_id = "toolu_1"
        /\ Len(m[4].content) = 2
        /\ m[4].content[1].type = "text"
        /\ Len(m[5].content) = 1

\* The tool_result blocks of a conversation, in order.
RECURSIVE ResultsIn(_)
ResultsIn(msgs) ==
    IF Len(msgs) <= 1 THEN <<>>
    ELSE ResultsIn(SubSeq(msgs, 1, Len(msgs) - 1))
         \o (IF msgs[Len(msgs)].role = "user" THEN msgs[Len(msgs)].content ELSE <<>>)

\* Every tool_result made so far: those in the conversation and those of the
\* round in progress.
AllResults == ResultsIn(messages) \o (IF pc = "exec" THEN tool_results ELSE <<>>)

\* C10: a tool dispatch that raises does not end the run: its tool_result has
\* is_error = true and a content holding the fault's message text, and every
\* result made is in the conversation of the last Completion Service call by
\* the time the run ends.
C10_ToolFaultContained ==
    /\ Len(AllResults) = Len(dispatches)
    /\ \A n \in DOMAIN dispatches :
            dispatches[n].outcome.kind = "raise"
                => /\ "is_error" \in DOMAIN AllResults[n]
                   /\ AllResults[n].is_error = TRUE
                   /\ \E p \in DOMAIN AllResults[n].content :
                            AllResults[n].content[p] = dispatches[n].outcome.value
    /\ Terminal => ResultsIn(LastCall(api_calls).messages) = AllResults
    /\ (pc = "loop" /\ current_round > 0)
            => /\ ResultsIn(messages) = AllResults
               /\ Len(api_calls) = current_round

\* The first dispatch raised and the second call carries its error result.
C10_Witness ==
    /\ Len(api_calls) >= 2
    /\ Len(dispatches) >= 1
    /\ dispatches[1].outcome.kind = "raise"
    /\ "is_error" \in DOMAIN api_calls[2].messages[3].content[1]
    /\ api_calls[2].messages[3].content[1].content
            = <<"Error executing tool: ", "Database connection failed">>

\* The content blocks of the current response that the tool round has passed.
BlocksDone == SubSeq(response.content, 1, block_i - 1)

\* C11: within one tool round every tool_use block of the response is
\* dispatched exactly once, one after another in the order of the blocks, a
\* failed dispatch included and not ending the batch: at every point of the
\* round the dispatches and the results are those of the blocks passed so far,
\* in order, and after the round they are those of the whole response.
C11_RoundDispatchesInOrder ==
    /\ pc = "exec"
        => /\ DispatchArgs = ArgsOfFirst(current_round - 1) \o ArgsOf(BlocksDone)
           /\ Len(tool_results) = Len(ToolUsesOf(BlocksDone))
           /\ \A j \in DOMAIN tool_results :
                /\ tool_results[j].tool_use_id = ToolUsesOf(BlocksDone)[j].id
                /\ ("is_error" \in DOMAIN tool_results[j])
                     <=> (dispatches[Len(dispatches) - Len(tool_results) + j]
                            .outcome.kind = "raise")
    /\ (pc \in {"loop", "return_116", "return_133", "return_153"} /\ tool_manager)
        => DispatchArgs = ArgsOfFirst(current_round)
    /\ (pc = "loop" /\ current_round > 0)
        => Len(tool_results) = Len(ToolUsesOf(response.content))

\* A round of two tool_use blocks whose first dispatch raised and whose second
\* was made all the same.
C11_Witness ==
    /\ pc = "exec"
    /\ block_i = 3
    /\ Len(tool_results) = 2
    /\ "is_error" \in DOMAIN tool_results[1]
    /\ "is_error" \notin DOMAIN tool_results[2]
    /\ tool_results[1].tool_use_id = response.content[1].id
    /\ tool_results[2].tool_use_id = response.content[2].id

\* A response that asks for a tool without holding a tool_use block.
EmptyToolRequest(resp) ==
    resp.stop_reason = "tool_use" /\ ToolUsesOf(resp.content) = <<>>

\* What C12 promises about the k-th response: nothing is dispatched for it, no
\* call follows it, and the run can only end by returning the sentinel string.
SentinelAfter(k) ==
    /\ Len(responses) = k
    /\ Len(api_calls) = k
    /\ DispatchArgs = ArgsOfFirst(k - 1)
    /\ pc \in {"exec", "return_133"}
    /\ pc = "exec" => result = NoResult
    /\ pc = "return_133" => result = NoToolsExecutedError

\* C12, as stated: with an executor supplied, any response with stop reason
\* tool_use and no tool_use block makes the run return "Error: Unable to
\* execute requested tools." with no dispatch and no further call.
C12_AsStated ==
    \A k \in DOMAIN responses :
        (tool_manager /\ EmptyToolRequest(responses[k])) => SentinelAfter(k)

\* C12, amended: the same for a response received inside the loop (the 1st or
\* the 2nd of the run); the forced final response is not examined for tool
\* use and its text is returned.
C12_EmptyToolRequestInLoop ==
    \A k \in DOMAIN responses :
        (tool_manager /\ k <= max_rounds /\ EmptyToolRequest(responses[k]))
            => SentinelAfter(k)

\* The second response asks for a tool without a tool_use block.
C12_Witness ==
    /\ pc = "return_133"
    /\ Len(responses) = 2
    /\ EmptyToolRequest(responses[2])
    /\ responses[2].content # <<>>
    /\ result = NoToolsExecutedError

\* C13: when no executor was supplied, a response with stop reason tool_use
\* makes the run return "Error: Tools requested but no tool manager
\* available." after that one call, with no dispatch and no further call.
C13_NoExecutor ==
    (~tool_manager /\ \E k \in DOMAIN responses : responses[k].stop_reason = "tool_use")
        => /\ pc = "return_142"
           /\ result = NoToolManagerError
           /\ Len(responses) = 1
           /\ Len(api_calls) = 1
           /\ dispatches = <<>>

\* A tool request with tool_use blocks, and nobody to run them.
C13_Witness ==
    /\ ~tool_manager
    /\ pc = "return_142"
    /\ ToolUsesOf(responses[1].content) # <<>>
    /\ tools # <<>>

\* C14: when the response whose text is returned, a non-tool-use response or
\* the forced final one, holds no text block, the run returns "".
C14_NoTextGivesEmptyString ==
    ( /\ pc \in {"return_116", "return_153"}
      /\ \A i \in DOMAIN response.content : response.content[i].type # "text" )
        => result = ""

\* An answer made of a tool_use block only, and a forced final one of no block.
C14_Witness ==
    /\ pc \in {"return_116", "return_153"}
    /\ response.content # <<>>
    /\ \A i \in DOMAIN response.content : response.content[i].type = "tool_use"
    /\ result = ""

\* A Completion Service call that has not returned a response: it raised.
CallFaulted == Len(api_calls) > Len(responses)

\* C15: a fault of any Completion Service call of a run, the 1st, the 2nd or
\* the forced final one, leaves generate_response by propagating: no answer
\* string is returned, and no dispatch and no call follows it.
C15_FaultPropagates ==
    /\ [](CallFaulted
            => /\ Raised
               /\ result = NoResult
               /\ Len(api_calls) = Len(responses) + 1
               /\ (tool_manager => DispatchArgs = ArgsOfFirst(Len(responses))))
    /\ [][Raised => UNCHANGED vars]_vars

\* The forced final call raised after two tool rounds.
C15_Witness ==
    /\ pc = "raise_152"
    /\ Len(api_calls) = 3
    /\ Len(responses) = 2
    /\ Len(dispatches) >= 2

\* A call of execute_tool whose arguments were accepted (no TypeError from a
\* keyword called tool_name) and whose name was registered: the tool ran.
Delegated ==
    /\ tm_last.op = "execute_tool"
    /\ tm_last.branch # "not_found"
    /\ "tool_name" \notin DOMAIN tm_last.kwargs

\* The tool object the last execute_tool call ran.
ToolRun == Get(tm_tools, tm_last.name)

\* text contains the pieces of pat, next to each other.
Contains(text, pat) ==
    \E i \in 1..(Len(text) - Len(pat) + 1) : SubSeq(text, i, i + Len(pat) - 1) = pat

\* text contains p1 and, after it, p2.
ContainsInOrder(text, p1, p2) ==
    \E i \in 1..(Len(text) - Len(p1) + 1) :
        /\ SubSeq(text, i, i + Len(p1) - 1) = p1
        /\ Contains(SubSeq(text, i + Len(p1), Len(text)), p2)

\* C16: whenever get_last_sources has just returned and some execute_tool call
\* on a registered name was made since the last reset_sources (a call that
\* execute_tool accepted: recent_execute is the name of the latest one), the
\* value returned is the current last_sources of the tool registered under
\* that name, provided that tool has a last_sources at all; this holds also
\* when that list is empty and another registered tool's list is not.
C16_LastSourcesOfLastExecuted ==
    (/\ tm_last.op = "get_last_sources"
     /\ recent_execute # None
     /\ HasSources(Get(tm_tools, recent_execute)))
        => tm_last.sources = last_sources[Get(tm_tools, recent_execute)]

\* get_last_sources returned the empty list of the tool executed last while
\* another registered tool holds records.
C16_Witness ==
    /\ tm_last.op = "get_last_sources"
    /\ recent_execute # None
    /\ HasSources(Get(tm_tools, recent_execute))
    /\ last_sources[Get(tm_tools, recent_execute)] = <<>>
    /\ tm_last.sources = <<>>
    /\ \E i \in DOMAIN tm_tools :
          /\ HasSources(tm_tools[i].tool)
          /\ last_sources[tm_tools[i].tool] # <<>>

\* C17 as stated: after any execute of a Search Tool or an Outline Tool has
\* returned, the tool's last_sources is exactly the list of records that
\* execution created (none when it created none), so no record of an earlier
\* execution is left in it.
C17_AsStated ==
    (Delegated /\ tm_last.exc = "" /\ HasSources(ToolRun))
        => last_sources[ToolRun] = tm_last.made

\* C18 as stated: a Search Tool execute that got an empty, error-free result
\* set with course_name and lesson_number both given returned a message with
\* "in course '<name>'" and then "in lesson <n>", and the tool's last_sources
\* is empty afterwards.
C18_AsStated ==
    (/\ Delegated
     /\ ToolRun \in SearchTools
     /\ tm_last.branch = "empty"
     /\ {"course_name", "lesson_number"} \subseteq DOMAIN tm_last.kwargs)
        => /\ ContainsInOrder(tm_last.text,
                              <<"in course '", tm_last.kwargs.course_name, "'">>,
                              <<"in lesson ", Str(tm_last.kwargs.lesson_number)>>)
           /\ last_sources[ToolRun] = <<>>

\* A step of reset_sources.
ResetStep == tm_last'.op = "reset_sources"

\* C19: after reset_sources every registered tool that has a last_sources has
\* an empty one and last_executed_tool is None, so get_last_sources returns
\* the empty list (both computed on the state reset_sources leaves and
\* observed when get_last_sources is the next call); a second reset_sources
\* right after the first changes nothing in the registry or its tools.
C19_ResetSources ==
    /\ [](tm_last.op = "reset_sources"
            => /\ \A i \in DOMAIN tm_tools :
                     HasSources(tm_tools[i].tool) => last_sources[tm_tools[i].tool] = <<>>
               /\ last_executed_tool = None
               /\ LastSources(tm_tools, last_executed_tool, last_sources) = <<>>)
    /\ [][(tm_last.op = "reset_sources" /\ tm_last'.op = "get_last_sources")
            => tm_last'.sources = <<>>]_vars
    /\ [][(tm_last.op = "reset_sources" /\ ResetStep)
            => UNCHANGED <<tm_tools, last_executed_tool, last_sources>>]_vars

\* reset_sources has just run on a registry of two or more tools, after tool
\* executions that created records: a tool object that was replaced in the
\* registry before the reset, and so is not registered, still holds records.
C19_Witness ==
    /\ tm_last.op = "reset_sources"
    /\ Len(tm_tools) >= 2
    /\ last_executed_tool = None
    /\ \E t \in DOMAIN last_sources :
          /\ last_sources[t] # <<>>
          /\ \A i \in DOMAIN tm_tools : tm_tools[i].tool # t

\* C20 as stated: an execute_tool call with a name that is not registered
\* raises nothing and returns a str that contains "not found", whatever the
\* name and the keyword arguments.
C20_AsStated ==
    (tm_last.op = "execute_tool" /\ tm_last.name \notin Keys(tm_tools))
        => /\ tm_last.exc = ""
           /\ Contains(tm_last.text, <<"not found">>)

\* A step of register_tool, for the tool object tm_last'.name.
RegisterStep == tm_last'.op = "register_tool"

\* C21 as stated: register_tool on a tool whose name is already a key of the
\* registry raises, and the registry keeps the tool registered before.
C21_AsStated ==
    [][(RegisterStep /\ DefinitionName(tm_last'.name) \in Keys(tm_tools))
         => (tm_last'.exc # "" /\ tm_tools' = tm_tools)]_vars

\* C22: register_tool on a tool whose definition has no name, or the empty
\* name, raises ValueError and changes neither the registry's tools nor
\* last_executed_tool (nor any tool's last_sources); so every key of the
\* registry is a non-empty name.
C22_UnnamedToolRejected ==
    /\ [][(RegisterStep /\ ~Truthy(DefinitionName(tm_last'.name)))
            => /\ tm_last'.exc = "ValueError: Tool must have a 'name' in its definition"
               /\ UNCHANGED <<tm_tools, last_executed_tool, last_sources>>]_vars
    /\ [](\A i \in DOMAIN tm_tools : Truthy(tm_tools[i].name))

\* register_tool has just rejected the tool with the empty name, on a registry
\* that holds tools and has executed one.
C22_Witness ==
    /\ tm_last.op = "register_tool"
    /\ tm_last.name = "blank"
    /\ tm_last.exc # ""
    /\ Len(tm_tools) >= 2
    /\ last_executed_tool # None

\* The last call ran a Search Tool and store.search returned results.
SearchAnswered ==
    /\ Delegated
    /\ ToolRun \in SearchTools
    /\ "results" \in DOMAIN tm_last.asked
    /\ tm_last.asked.fault = ""

\* C23: when store.search returned results that carry an error, the Search
\* Tool's execute returned exactly that error string, although the results
\* have no documents (not the empty-result message), created no source record
\* and looked up no lesson link.
C23_ErrorReturnedUnchanged ==
    (SearchAnswered /\ Truthy(tm_last.asked.results.error))
        => /\ tm_last.exc = ""
           /\ tm_last.text = <<tm_last.asked.results.error>>
           /\ tm_last.made = <<>>
           /\ tm_last.lookups = <<>>

\* An error result without documents was returned by store.search and the
\* filters were given.
C23_Witness ==
    /\ SearchAnswered
    /\ Truthy(tm_last.asked.results.error)
    /\ tm_last.asked.results.documents = <<>>
    /\ "course_name" \in DOMAIN tm_last.kwargs
    /\ tm_last.text = <<"Search error: no index">>

\* The passages store.search returned to the last call.
PassagesAsked == tm_last.asked.results.metadata

\* C24: after a Search Tool execute that got documents, the tool's
\* last_sources is the list this execution made: one record per passage, in
\* passage order; for a passage with a lesson number the text is
\* "<course_title> - Lesson <n>" and the url is get_lesson_link(course_title,
\* n); for one without, the text is "<course_title>" and the url is None
\* (course_title is 'unknown' when the passage has none). get_lesson_link was
\* called once per passage with a lesson number and for no other passage.
C24_SourcesPerPassage ==
    (SearchAnswered /\ ~Truthy(tm_last.asked.results.error)
       /\ tm_last.asked.results.documents # <<>>)
        => /\ last_sources[ToolRun] = tm_last.made
           /\ Len(tm_last.made) = Len(tm_last.asked.results.documents)
           /\ \A i \in DOMAIN tm_last.made :
                LET meta == PassagesAsked[i]
                    title == IF "course_title" \in DOMAIN meta THEN meta.course_title
                             ELSE "unknown"
                IN IF "lesson_number" \in DOMAIN meta
                   THEN /\ tm_last.made[i].text = <<title, " - Lesson ", Str(meta.lesson_number)>>
                        /\ tm_last.made[i].url = get_lesson_link(title, meta.lesson_number)
                        /\ \E k \in DOMAIN tm_last.lookups :
                              tm_last.lookups[k] = [course_title |-> title,
                                                    lesson_num |-> meta.lesson_number]
                   ELSE /\ tm_last.made[i].text = <<title>>
                        /\ tm_last.made[i].url = None
           /\ Len(tm_last.lookups)
                = Cardinality({ i \in DOMAIN PassagesAsked :
                                  "lesson_number" \in DOMAIN PassagesAsked[i] })

\* A search returned three passages, two of them with a lesson number, and
\* the tool's last_sources is the three records made from them.
C24_Witness ==
    /\ SearchAnswered
    /\ Len(tm_last.made) = 3
    /\ Len(tm_last.lookups) = 2
    /\ last_sources[ToolRun] = tm_last.made
    /\ tm_last.made[2].url = None
    /\ tm_last.made[1].url # None

\* The pieces " in course '<c>'" and " in lesson <n>" the empty-result message
\* is to carry for the filters the call supplied.
SuffixesFor(kwargs) ==
    (IF "course_name" \in DOMAIN kwargs
     THEN <<" ", "in course '", kwargs.course_name, "'">> ELSE <<>>)
    \o (IF "lesson_number" \in DOMAIN kwargs
        THEN <<" ", "in lesson ", Str(kwargs.lesson_number)>> ELSE <<>>)

\* C25 as stated: for an empty, error-free result set the message is "No
\* relevant content found", then " in course '<course_name>'" if a course_name
\* was supplied, then " in lesson <lesson_number>" if a lesson_number was
\* supplied, and no other filter clause.
C25_AsStated ==
    (SearchAnswered /\ ~Truthy(tm_last.asked.results.error)
       /\ tm_last.asked.results.documents = <<>>)
        => LET expected == <<"No relevant content found">> \o SuffixesFor(tm_last.kwargs)
           IN /\ Len(tm_last.text) >= Len(expected)
              /\ SubSeq(tm_last.text, 1, Len(expected)) = expected
              /\ \A j \in (Len(expected) + 1)..Len(tm_last.text) :
                    tm_last.text[j] \notin {"in course '", "in lesson "}

\* The last call ran an Outline Tool, whose course name resolved and whose
\* metadata the catalog returned.
OutlineFound ==
    /\ Delegated
    /\ ToolRun \in OutlineTools
    /\ "metadatas" \in DOMAIN tm_last.asked
    /\ tm_last.asked.resolve_fault = ""
    /\ Truthy(tm_last.asked.resolved)
    /\ tm_last.asked.get_fault = ""
    /\ tm_last.asked.metadatas # <<>>
    /\ DOMAIN tm_last.asked.metadatas[1] # {}

\* C26: after an Outline Tool execute that resolved the course and found its
\* metadata, the tool's last_sources is one record (text = the title, 'Unknown
\* Course' when the metadata has none; url = the course link) when the
\* metadata has a non-empty course_link, and no record otherwise; an Outline
\* Tool's last_sources never holds more than one record.
C26_OutlineSource ==
    /\ OutlineFound
        => LET m == tm_last.asked.metadatas[1]
               link == IF "course_link" \in DOMAIN m THEN m.course_link ELSE None
               title == IF "title" \in DOMAIN m THEN m.title ELSE "Unknown Course"
           IN last_sources[ToolRun]
                = IF link \notin {None, ""} THEN << [text |-> <<title>>, url |-> link] >>
                  ELSE <<>>
    /\ \A t \in OutlineTools : Len(last_sources[t]) <= 1

\* The outline of a course whose metadata has no course_link was formatted
\* and the tool's last_sources is empty.
C26_Witness ==
    /\ OutlineFound
    /\ "course_link" \notin DOMAIN tm_last.asked.metadatas[1]
    /\ last_sources[ToolRun] = <<>>
    /\ tm_last.made = <<>>
    /\ tm_last.branch = "found"

\* The last call ran an Outline Tool whose resolver answered (did not fail).
OutlineAnswered ==
    /\ Delegated
    /\ ToolRun \in OutlineTools
    /\ "metadatas" \in DOMAIN tm_last.asked
    /\ tm_last.asked.resolve_fault = ""

\* C27: an Outline Tool execute whose course name did not resolve returned a
\* str with "No course found matching '<course_name>'"; one whose catalog
\* lookup failed returned a str naming the fault; one whose metadata is
\* missing (no metadatas, or an empty one) returned a str naming the course;
\* a Search Tool execute that got an empty, error-free result set returned a
\* str; none of them raised.
C27_InputErrorsReturned ==
    /\ (OutlineAnswered /\ ~Truthy(tm_last.asked.resolved))
        => /\ tm_last.exc = ""
           /\ Contains(tm_last.text,
                       <<"No course found matching '", tm_last.kwargs.course_name, "'">>)
    /\ (OutlineAnswered /\ Truthy(tm_last.asked.resolved) /\ tm_last.asked.get_fault # "")
        => /\ tm_last.exc = ""
           /\ Contains(tm_last.text, <<tm_last.asked.get_fault>>)
    /\ (OutlineAnswered /\ Truthy(tm_last.asked.resolved) /\ tm_last.asked.get_fault = ""
          /\ (tm_last.asked.metadatas = <<>> \/ DOMAIN tm_last.asked.metadatas[1] = {}))
        => /\ tm_last.exc = ""
           /\ Contains(tm_last.text, <<tm_last.asked.resolved>>)
    /\ (SearchAnswered /\ ~Truthy(tm_last.asked.results.error)
          /\ tm_last.asked.results.documents = <<>>)
        => /\ tm_last.exc = ""
           /\ tm_last.text # <<>>

\* The catalog lookup of a resolved course failed and execute returned a str.
C27_Witness ==
    /\ OutlineAnswered
    /\ tm_last.asked.get_fault = "catalog is down"
    /\ tm_last.exc = ""
    /\ tm_last.text = <<"Error retrieving course outline: ", "catalog is down">>

\* ------------------------------------------- runs of one generator in a row

\* Content blocks per response in the runs made in a row.
RunBlocks == 1

ShortResponses == \A i \in DOMAIN responses : Len(responses[i].content) <= RunBlocks

\* What the current run of generate_response was given: its arguments, the
\* Completion Service's responses and fault, the tool executor's outcomes.
RunInputs ==
    [query |-> query, history |-> history, tools |-> tools, tool_manager |-> tool_manager,
     responses |-> responses, faulted |-> CallFaulted,
     outcomes |-> [i \in DOMAIN dispatches |-> dispatches[i].outcome]]

\* What the current run did: its Completion Service calls, its tool
\* dispatches, and how it ended.
RunOutputs ==
    [api_calls |-> api_calls, dispatched |-> DispatchArgs, result |-> result, ended |-> pc]

\* generate_response has returned or raised and is called again: the locals
\* of the call that ended are gone, the generator object stays.
NextRun ==
    /\ Terminal
    /\ runs < MaxRuns - 1
    /\ runs' = runs + 1
    /\ first' = IF runs = 0 THEN [inputs |-> RunInputs, outputs |-> RunOutputs] ELSE first
    /\ pc' = "idle"
    /\ query' = ""
    /\ history' = ""
    /\ tools' = <<>>
    /\ tool_manager' = FALSE
    /\ system_content' = <<>>
    /\ messages' = <<>>
    /\ current_round' = 0
    /\ response' = NoResponse
    /\ responses' = <<>>
    /\ block_i' = 0
    /\ tool_results' = <<>>
    /\ result' = NoResult
    /\ api_calls' = <<>>
    /\ dispatches' = <<>>
    /\ UNCHANGED self_base_params
    /\ UNCHANGED <<reg_vars, conc_vars, fac_vars>>

RunNext ==
    \/ Begin
    \/ LoopCall /\ ShortResponses'
    \/ LoopCallFault
    \/ ExecBlock
    \/ EndRound
    \/ FinalCall /\ ShortResponses'
    \/ FinalCallFault
    \/ NextRun

RunSpec == Init /\ [][RunNext]_vars

\* C28: a run of generate_response made after other runs on the same
\* generator, given the query, history, tools, executor, responses, fault and
\* tool outcomes the generator's first run was given, made the same
\* Completion Service calls (all keyword arguments), the same dispatches and
\* ended the same way with the same answer as that first run.
C28_RunsAreIndependent ==
    (runs >= 1 /\ Terminal /\ RunInputs = first.inputs) => RunOutputs = first.outputs

\* The third run on a generator has ended as the first did, after two tool
\* rounds and three Completion Service calls with the tools offered.
C28_Witness ==
    /\ runs = 2
    /\ pc = "return_153"
    /\ RunInputs = first.inputs
    /\ RunOutputs = first.outputs
    /\ Len(api_calls) = 3
    /\ Len(dispatches) = 2
    /\ tools # <<>>

\* ------------------------------------------------ two queries at one time

\* The setup is chosen and both queries arrive.
ConcSetup ==
    /\ \A q \in Threads : c_pc[q] = "idle"
    /\ c_config' \in Configs
    /\ c_pc' = [q \in Threads |-> "start"]
    /\ UNCHANGED <<c_pointer, c_lists, c_read>>
    /\ UNCHANGED beyond_conc

\* Query q's run dispatches a search: execute_tool records the name, then
\* calls the tool's execute.
ConcDispatch(q) ==
    /\ c_pc[q] = "start"
    /\ c_pointer' = [c_pointer EXCEPT ![ManagerOf(c_config, q)] = "search_course_content"]
    /\ c_pc' = [c_pc EXCEPT ![q] = "executing"]
    /\ UNCHANGED <<c_config, c_lists, c_read>>
    /\ UNCHANGED beyond_conc

\* The tool's execute, called for query q, ends: _format_results assigns the
\* records it made to last_sources, or execute returns without assigning.
ConcExecute(q) ==
    /\ c_pc[q] = "executing"
    /\ LET t == Get(ToolsOf(c_config, ManagerOf(c_config, q)), "search_course_content")
       IN \/ c_lists' = [c_lists EXCEPT ![ListOf(t)] =
                           << [text |-> <<"MCP">>, url |-> None, by |-> q] >>]
          \/ UNCHANGED c_lists
    /\ c_pc' = [c_pc EXCEPT ![q] = "ran"]
    /\ UNCHANGED <<c_config, c_pointer, c_read>>
    /\ UNCHANGED beyond_conc

\* Query q's run ends without a tool call.
ConcNoTool(q) ==
    /\ c_pc[q] = "start"
    /\ c_pc' = [c_pc EXCEPT ![q] = "ran"]
    /\ UNCHANGED <<c_config, c_pointer, c_lists, c_read>>
    /\ UNCHANGED beyond_conc

\* get_last_sources, called for query q after its run.
ConcRead(q) ==
    /\ c_pc[q] = "ran"
    /\ LET m == ManagerOf(c_config, q)
       IN c_read' = [c_read EXCEPT ![q] =
                       LastSources(ToolsOf(c_config, m), c_pointer[m], ListsSeen)]
    /\ c_pc' = [c_pc EXCEPT ![q] = "read"]
    /\ UNCHANGED <<c_config, c_pointer, c_lists>>
    /\ UNCHANGED beyond_conc

\* reset_sources, called for query q after its read.
ConcReset(q) ==
    /\ c_pc[q] = "read"
    /\ LET m == ManagerOf(c_config, q)
           registered == { ListOf(ToolsOf(c_config, m)[i].tool) :
                             i \in DOMAIN ToolsOf(c_config, m) }
       IN /\ c_lists' = [c \in DOMAIN c_lists |-> IF c \in registered THEN <<>> ELSE c_lists[c]]
          /\ c_pointer' = [c_pointer EXCEPT ![m] = None]
    /\ c_pc' = [c_pc EXCEPT ![q] = "done"]
    /\ UNCHANGED <<c_config, c_read>>
    /\ UNCHANGED beyond_conc

ConcNext ==
    \/ ConcSetup
    \/ \E q \in Threads : ConcDispatch(q)
    \/ \E q \in Threads : ConcExecute(q)
    \/ \E q \in Threads : ConcNoTool(q)
    \/ \E q \in Threads : ConcRead(q)
    \/ \E q \in Threads : ConcReset(q)

ConcSpec == Init /\ [][ConcNext]_vars

\* Query q has read a source record that the other query's execution made.
CrossTalk(q) ==
    /\ c_pc[q] \in {"read", "done"}
    /\ \E i \in DOMAIN c_read[q] : c_read[q][i].by # q

\* C29: with a ToolManager and a tool object of its own for each query, no
\* interleaving of the two queries' dispatch, execute, get_last_sources and
\* reset_sources steps lets a query read a record the other query's execution
\* made; a state with such a read has the queries share a ToolManager or a
\* tool object.
C29_NoCrossTalkWhenIndependent ==
    \A q \in Threads : CrossTalk(q) => c_config \in {"shared_manager", "shared_tool"}

\* Independent objects: both queries executed a search, the second query read
\* while the first had not yet reset, and each read its own record.
C29_Witness ==
    /\ c_config = "independent"
    /\ c_pc = [q \in Threads |-> IF q = 1 THEN "read" ELSE "done"]
    /\ \A q \in Threads : c_read[q] = << [text |-> <<"MCP">>, url |-> None, by |-> q] >>

\* With a shared tool object a query does read the other query's record.
CrossTalkWhenShared ==
    /\ c_config = "shared_tool"
    /\ CrossTalk(1)

\* ------------------------------------------------- queries through a Facade

\* What every step of query() leaves alone.
beyond_fac == <<gen_vars, self_base_params, runs, first, conc_vars>>

\* Construction: the Facade makes its ToolManager and registers its tools.
FacRegister ==
    /\ f_pc = "new"
    /\ register_tool(FacTools[Len(tm_tools) + 1])
    /\ f_pc' = IF Len(tm_tools) + 1 = Len(FacTools) THEN "idle" ELSE "new"
    /\ UNCHANGED <<f_text, f_prompt, f_session, f_history, f_store, f_answer, f_sources,
                   f_calls, f_result, f_dispatches, f_queries>>

\* query(text, session_id?) is entered; with a session its history is
\* resolved from the History Store.
FacQuery(text, session_id) ==
    /\ f_pc \in {"idle", "returned", "raised"}
    /\ f_queries < MaxQueries
    /\ f_text' = text
    /\ f_prompt' = Prompt(text)
    /\ f_session' = session_id
    /\ IF session_id # None
       THEN /\ f_history' = get_history(f_store, session_id)
            /\ f_calls' = << FacCall("get_history", <<>>) >>
       ELSE /\ f_history' = None
            /\ f_calls' = <<>>
    /\ f_answer' = None
    /\ f_sources' = <<>>
    /\ f_result' = NoPair
    /\ f_dispatches' = 0
    /\ f_pc' = "run"
    /\ UNCHANGED <<f_store, f_queries>>
    /\ UNCHANGED reg_vars
    /\ UNCHANGED beyond_fac

\* The orchestration run dispatches a tool call through the ToolManager.
FacDispatch(tool_name, kwargs) ==
    /\ f_pc = "run"
    /\ f_dispatches < MaxDispatches
    /\ execute_tool(tool_name, kwargs)
    /\ f_dispatches' = f_dispatches + 1
    /\ f_calls' = Append(f_calls, FacCall("execute_tool", tm_last'.made))
    /\ UNCHANGED <<f_pc, f_text, f_prompt, f_session, f_history, f_store, f_answer, f_sources,
                   f_result, f_queries>>

\* The orchestration run returns its answer.
FacRunReturns(answer) ==
    /\ f_pc = "run"
    /\ f_answer' = answer
    /\ f_calls' = Append(f_calls, FacCall("generate_response", <<>>))
    /\ f_pc' = "persist"
    /\ UNCHANGED <<f_text, f_prompt, f_session, f_history, f_store, f_sources, f_result,
                   f_dispatches, f_queries>>
    /\ UNCHANGED reg_vars
    /\ UNCHANGED beyond_fac

\* An upstream fault leaves the orchestration run and query() with it.
FacRunRaises ==
    /\ f_pc = "run"
    /\ f_pc' = "raised"
    /\ f_queries' = f_queries + 1
    /\ UNCHANGED <<f_text, f_prompt, f_session, f_history, f_store, f_answer, f_sources,
                   f_calls, f_result, f_dispatches>>
    /\ UNCHANGED reg_vars
    /\ UNCHANGED beyond_fac

\* Variant: the exchange is recorded with the text the run was given.
FacPersist_RecordsPrompt ==
    /\ f_pc = "persist"
    /\ IF f_session # None
       THEN /\ f_store' = append_exchange(f_store, f_session, f_prompt, f_answer)
            /\ f_calls' = Append(f_calls, FacCall("append_exchange", <<>>))
       ELSE UNCHANGED <<f_store, f_calls>>
    /\ f_pc' = "read"
    /\ UNCHANGED <<f_text, f_prompt, f_session, f_history, f_answer, f_sources, f_result,
                   f_dispatches, f_queries>>
    /\ UNCHANGED reg_vars
    /\ UNCHANGED beyond_fac

\* With a session, the exchange is appended to the History Store.
FacPersist ==
    /\ f_pc = "persist"
    /\ IF f_session # None
       THEN /\ f_store' = append_exchange(f_store, f_session, f_text, f_answer)
            /\ f_calls' = Append(f_calls, FacCall("append_exchange", <<>>))
       ELSE UNCHANGED <<f_store, f_calls>>
    /\ f_pc' = "read"
    /\ UNCHANGED <<f_text, f_prompt, f_session, f_history, f_answer, f_sources, f_result,
                   f_dispatches, f_queries>>
    /\ UNCHANGED reg_vars
    /\ UNCHANGED beyond_fac

\* The accumulated sources are retrieved.
FacRead ==
    /\ f_pc = "read"
    /\ get_last_sources
    /\ f_sources' = tm_last'.sources
    /\ f_calls' = Append(f_calls, FacCall("get_last_sources", tm_last'.sources))
    /\ f_pc' = "reset"
    /\ UNCHANGED <<f_text, f_prompt, f_session, f_history, f_store, f_answer, f_result,
                   f_dispatches, f_queries>>

\* The accumulated sources are cleared.
FacReset ==
    /\ f_pc = "reset"
    /\ reset_sources
    /\ f_calls' = Append(f_calls, FacCall("reset_sources", <<>>))
    /\ f_pc' = "return"
    /\ UNCHANGED <<f_text, f_prompt, f_session, f_history, f_store, f_answer, f_sources,
                   f_result, f_dispatches, f_queries>>

\* Variant: the pair is built from the registry's lists as they are when
\* query() returns.
FacReturn_FromRegistry ==
    /\ f_pc = "return"
    /\ f_result' = [answer |-> f_answer,
                    sources |-> LastSources(tm_tools, last_executed_tool, last_sources)]
    /\ f_pc' = "returned"
    /\ f_queries' = f_queries + 1
    /\ UNCHANGED <<f_text, f_prompt, f_session, f_history, f_store, f_answer, f_sources,
                   f_calls, f_dispatches>>
    /\ UNCHANGED reg_vars
    /\ UNCHANGED beyond_fac

\* query() returns (answer, sources).
FacReturn ==
    /\ f_pc = "return"
    /\ f_result' = [answer |-> f_answer, sources |-> f_sources]
    /\ f_pc' = "returned"
    /\ f_queries' = f_queries + 1
    /\ UNCHANGED <<f_text, f_prompt, f_session, f_history, f_store, f_answer, f_sources,
                   f_calls, f_dispatches>>
    /\ UNCHANGED reg_vars
    /\ UNCHANGED beyond_fac

FacNext ==
    \/ FacRegister
    \/ \E text \in FacTexts, session_id \in SessionIds \cup {None} : FacQuery(text, session_id)
    \/ \E tool_name \in ToolNames, kwargs \in Kwargs : FacDispatch(tool_name, kwargs)
    \/ \E answer \in FacAnswers : FacRunReturns(answer)
    \/ FacRunRaises
    \/ FacPersist
    \/ FacRead
    \/ FacReset
    \/ FacReturn

FacSpec == Init /\ [][FacNext]_vars

\* The places in f_calls of the calls of one operation.
CallsOf(op) == { i \in DOMAIN f_calls : f_calls[i].op = op }

\* C30: when query() has returned, its call record holds one get_last_sources
\* and one reset_sources, the read after the orchestration run's return and
\* the reset after the read, and the sources of the returned pair are what
\* that read returned.
C30_ReadOnceThenResetOnce ==
    f_pc = "returned" =>
        /\ Cardinality(CallsOf("get_last_sources")) = 1
        /\ Cardinality(CallsOf("reset_sources")) = 1
        /\ \A i \in CallsOf("get_last_sources") :
             /\ \A r \in CallsOf("generate_response") \cup CallsOf("execute_tool") : r < i
             /\ \A j \in CallsOf("reset_sources") : i < j
             /\ f_result.sources = f_calls[i].out

\* A query whose run dispatched a search that made a source record has
\* returned: the pair carries the record and the registry's lists are empty.
C30_Witness ==
    /\ f_pc = "returned"
    /\ f_dispatches >= 1
    /\ f_result.sources # <<>>
    /\ \A t \in DOMAIN last_sources : last_sources[t] = <<>>
    /\ last_executed_tool = None

\* All of a sequence but its last element.
Front(seq) == SubSeq(seq, 1, Len(seq) - 1)

\* C31: a query without a session leaves the History Store alone, makes no
\* get_history and no append_exchange call, and hands the run no history; a
\* query with a session calls get_history first, hands the run what the store
\* held for the session, and after the run appends one exchange, the caller's
\* text with the returned answer. The store changes in no other way.
C31_HistoryOnlyWithSession ==
    /\ [](f_pc = "returned" =>
            IF f_session = None
            THEN /\ CallsOf("get_history") = {}
                 /\ CallsOf("append_exchange") = {}
                 /\ f_history = None
            ELSE /\ CallsOf("get_history") = {1}
                 /\ Cardinality(CallsOf("append_exchange")) = 1
                 /\ \A a \in CallsOf("append_exchange") :
                      \A r \in CallsOf("generate_response") : r < a
                 /\ f_store[f_session] # <<>>
                 /\ f_store[f_session][Len(f_store[f_session])] =
                      [question |-> f_text, answer |-> f_result.answer]
                 /\ f_history = IF Len(f_store[f_session]) = 1 THEN None
                                ELSE Front(f_store[f_session]))
    /\ [][f_store' # f_store =>
            /\ f_session # None
            /\ f_store' = [f_store EXCEPT ![f_session] =
                             Append(@, [question |-> f_text, answer |-> f_answer])]]_vars

\* A second query of a session has returned: the run was handed the first
\* exchange, and the store holds two.
C31_Witness ==
    /\ f_pc = "returned"
    /\ f_session # None
    /\ f_history # None
    /\ Len(f_store[f_session]) = 2

\* The assistant messages of a conversation.
AssistantCount(msgs) == Cardinality({ i \in DOMAIN msgs : msgs[i].role = "assistant" })

\* A step in which the loop, its condition true, receives a response whose
\* stop reason is tool_use.
LoopReceivesToolUse ==
    /\ pc = "loop"
    /\ current_round < max_rounds
    /\ Len(responses') = Len(responses) + 1
    /\ response'.stop_reason = "tool_use"

\* C32: current_round is 0 when the run is entered and stays within
\* 0..max_rounds; a step changes it only by adding 1, and does so exactly when
\* the loop receives a tool_use response; every Completion Service call made
\* inside the loop carries as many assistant messages as current_round counts.
C32_RoundCounter ==
    /\ [](current_round \in 0..max_rounds)
    /\ [][pc = "idle" => current_round' = 0]_vars
    /\ [][current_round' = IF LoopReceivesToolUse THEN current_round + 1
                           ELSE current_round]_vars
    /\ [][(CallMade /\ current_round < max_rounds)
            => AssistantCount(LastCall(api_calls').messages) = current_round]_vars

\* The second loop call has been made, with one assistant message in the
\* conversation, and answered by a second tool request: the counter is at 2.
C32_Witness ==
    /\ Len(api_calls) = 2
    /\ AssistantCount(api_calls[2].messages) = 1
    /\ response.stop_reason = "tool_use"
    /\ current_round = max_rounds
    /\ pc = "exec"

\* The list the i-th Completion Service call was handed, as its holder sees it
\* now. The variant hands over the run's own list; the code hands over
\* messages.copy(), which later appends to messages do not reach.
HandedMessages_Alias(i) == messages

HandedMessages(i) == api_calls[i].messages

IsProperPrefix(a, b) == Len(a) < Len(b) /\ SubSeq(b, 1, Len(a)) = a

\* C33: the list handed to each Completion Service call is a proper prefix of
\* the list handed to the next call, and no step changes the length of a list
\* handed to a call already made.
C33_AppendOnly ==
    /\ [](\A i \in DOMAIN api_calls :
            i + 1 \in DOMAIN api_calls
                => IsProperPrefix(HandedMessages(i), HandedMessages(i + 1)))
    /\ [][\A i \in DOMAIN api_calls :
            Len(HandedMessages(i)') = Len(HandedMessages(i))]_vars

\* Three calls were made: the lists handed over hold 1, 3 and 5 messages, and
\* the run's own list has grown since the first call.
C33_Witness ==
    /\ Len(api_calls) = 3
    /\ Len(HandedMessages(1)) = 1
    /\ Len(HandedMessages(2)) = 3
    /\ Len(HandedMessages(3)) = 5
    /\ Len(messages) = 5

\* ------------------------------------- tools also executed without a registry

\* tool.execute(**kwargs) called on a tool object itself, not through a
\* ToolManager: the registry's dict and pointer are not touched. tm_last
\* records it as the latest call.
DirectExecute(t, kwargs) ==
    /\ \E out \in Executions(t, kwargs) :
        /\ last_sources' = IF out.assigns THEN [last_sources EXCEPT ![t] = out.sources]
                           ELSE last_sources
        /\ tm_last' = Call("execute", t, kwargs, out)
    /\ UNCHANGED <<tm_tools, last_executed_tool, recent_execute>>
    /\ UNCHANGED beyond_reg
    /\ UNCHANGED fac_vars

ScanNext ==
    \/ \E t \in {"search_a", "outline", "plain"} : register_tool(t) /\ UNCHANGED fac_vars
    \/ \E t \in {"search_a", "outline"}, kwargs \in {[query |-> "q"], [course_name |-> "MCP"]} :
          DirectExecute(t, kwargs)
    \/ \E tool_name \in ToolNames, kwargs \in {[query |-> "q"], [course_name |-> "MCP"]} :
          execute_tool(tool_name, kwargs) /\ UNCHANGED fac_vars
    \/ get_last_sources /\ UNCHANGED fac_vars
    \/ reset_sources /\ UNCHANGED fac_vars

ScanSpec == Init /\ [][ScanNext]_vars

\* The registered tools, by place in the dict, whose last_sources is not empty.
NonEmptyPlaces ==
    { i \in DOMAIN tm_tools :
        HasSources(tm_tools[i].tool) /\ last_sources[tm_tools[i].tool] # <<>> }

\* C34: a get_last_sources call made while last_executed_tool is None returns
\* the last_sources of the registered tool that comes first in the dict among
\* those with a non-empty list, and the empty list when there is none.
C34_FallbackScan ==
    [][(tm_last'.op = "get_last_sources" /\ tm_last' # tm_last /\ last_executed_tool = None)
        => tm_last'.sources =
             IF NonEmptyPlaces = {} THEN <<>>
             ELSE last_sources[tm_tools[CHOOSE i \in NonEmptyPlaces :
                                          \A j \in NonEmptyPlaces : i <= j].tool]]_vars

\* No tool was executed through the registry, two registered tools hold
\* different non-empty lists, and get_last_sources has returned the list of
\* the one registered first.
C34_Witness ==
    /\ tm_last.op = "get_last_sources"
    /\ last_executed_tool = None
    /\ Cardinality(NonEmptyPlaces) = 2
    /\ \E i, j \in NonEmptyPlaces :
         /\ i < j
         /\ last_sources[tm_tools[i].tool] # last_sources[tm_tools[j].tool]
         /\ tm_last.sources = last_sources[tm_tools[i].tool]

\* The source records made by the tool executions of the query being served.
MadeThisQuery ==
    UNION { { f_calls[i].out[m] : m \in DOMAIN f_calls[i].out } :
              i \in CallsOf("execute_tool") }

\* C35, as stated: the sources a query returns are all records made by tool
\* executions of that query, whatever the queries before it did; with no tool
\* executed they are empty.
C35_AsStated ==
    f_pc = "returned" =>
        /\ \A k \in DOMAIN f_result.sources : f_result.sources[k] \in MadeThisQuery
        /\ CallsOf("execute_tool") = {} => f_result.sources = <<>>

\* C36: last_executed_tool is None or a key of the registry's dict, in every
\* state the ToolManager's calls can reach.
C36_PointerNamesRegistered ==
    last_executed_tool = None \/ last_executed_tool \in Keys(tm_tools)

\* A tool was executed, and then execute_tool was called with a name that is
\* not registered: the pointer still names the tool that ran.
C36_Witness ==
    /\ tm_last.op = "execute_tool"
    /\ tm_last.name \notin Keys(tm_tools)
    /\ last_executed_tool \in Keys(tm_tools)
    /\ last_executed_tool # tm_last.name

\* A step of execute_tool with a name that is not a key of the dict.
ExecuteUnregistered ==
    /\ tm_last'.op = "execute_tool"
    /\ tm_last'.name \notin Keys(tm_tools)

\* C37: execute_tool with a name that is not registered leaves the pointer,
\* the dict and every tool's last_sources as they were, and get_last_sources
\* returns after it what it returned before it.
C37_UnregisteredChangesNothing ==
    [][ExecuteUnregistered
        => /\ UNCHANGED <<last_executed_tool, tm_tools, last_sources>>
           /\ LastSources(tm_tools', last_executed_tool', last_sources')
                = LastSources(tm_tools, last_executed_tool, last_sources)]_vars

\* The not-found call was made on a registry whose pointer is set and whose
\* get_last_sources returns records.
C37_Witness ==
    /\ tm_last.op = "execute_tool"
    /\ tm_last.name \notin Keys(tm_tools)
    /\ tm_last.text = <<"Tool '", tm_last.name, "' ", "not found">>
    /\ last_executed_tool # None
    /\ LastSources(tm_tools, last_executed_tool, last_sources) # <<>>

\* A step of execute_tool that reached a registered tool's execute, which
\* raised.
ExecuteRaised ==
    /\ tm_last'.op = "execute_tool"
    /\ tm_last'.name \in Keys(tm_tools)
    /\ "tool_name" \notin DOMAIN tm_last'.kwargs
    /\ tm_last'.exc # ""

KwargsOf(input) ==
    IF input = "query=x" THEN [query |-> "x"] ELSE [course_name |-> "MCP"]

\* What _execute_tool_round sees of an execute_tool call: the str returned,
\* or the exception caught with its text.
OutcomeOf(out) ==
    IF out.exc # "" THEN [kind |-> "raise", value |-> out.exc]
    ELSE [kind |-> "ok", value |-> out.text]

\* One iteration of the for loop of _execute_tool_round, with the call of
\* lines 173-176 made on the ToolManager: execute_tool returns the not-found
\* string for a name that is not registered, and otherwise records the name
\* and runs the tool.
ExecBlockVia ==
    /\ pc = "exec"
    /\ block_i <= Len(response.content)
    /\ LET block == response.content[block_i] IN
        IF block.type = "tool_use"
        THEN \E out \in (IF block.name \in Keys(tm_tools)
                         THEN Executions(Get(tm_tools, block.name), KwargsOf(block.input))
                         ELSE {NotFound(block.name)}) :
                /\ dispatches' = Append(dispatches,
                        [name |-> block.name, input |-> block.input,
                         outcome |-> OutcomeOf(out)])
                /\ tool_results' = Append(tool_results, ToolResultFor(block, OutcomeOf(out)))
                /\ tm_last' = Call("execute_tool", block.name, KwargsOf(block.input), out)
                /\ IF block.name \in Keys(tm_tools)
                   THEN /\ last_executed_tool' = block.name
                        /\ recent_execute' = block.name
                        /\ last_sources' =
                             IF out.assigns
                             THEN [last_sources EXCEPT ![Get(tm_tools, block.name)] = out.sources]
                             ELSE last_sources
                   ELSE UNCHANGED <<last_executed_tool, recent_execute, last_sources>>
        ELSE UNCHANGED <<dispatches, tool_results, tm_last, last_executed_tool,
                         recent_execute, last_sources>>
    /\ block_i' = NextBlock(block_i)
    /\ UNCHANGED <<pc, query, history, tools, tool_manager, system_content,
                   messages, current_round, response, responses, result, api_calls>>
    /\ UNCHANGED <<tm_tools, self_base_params, runs, first, conc_vars, fac_vars>>

\* The ToolManager is set up before the run, with any of its tools.
ViaNext ==
    \/ \E t \in {"search_a", "outline"} :
          pc = "idle" /\ register_tool(t) /\ UNCHANGED fac_vars
    \/ Begin
    \/ LoopCall /\ ShortResponses'
    \/ LoopCallFault
    \/ ExecBlockVia
    \/ EndRound
    \/ FinalCall /\ ShortResponses'
    \/ FinalCallFault

ViaSpec == Init /\ [][ViaNext]_vars

\* What the registry returns for a name it does not hold.
NotFoundText(tool_name) == <<"Tool '", tool_name, "' ", "not found">>

\* The tool_results of the round hold the not-found string of some block.
RoundHadNotFound ==
    \E i \in DOMAIN tool_results :
        \E b \in DOMAIN response.content :
            /\ response.content[b].type = "tool_use"
            /\ tool_results[i].tool_use_id = response.content[b].id
            /\ tool_results[i].content = NotFoundText(response.content[b].name)

\* C39: a dispatch of a name the ToolManager does not hold appends a
\* tool_result that carries the not-found string and no is_error key, in a
\* round current_round has counted; when that round's dispatches are over the
\* results are appended as a user message and the run is back at the loop
\* test, from where the next Completion Service call is made.
C39_NotFoundIsAResult ==
    /\ [][(pc = "exec" /\ Len(dispatches') = Len(dispatches) + 1
             /\ dispatches'[Len(dispatches')].name \notin Keys(tm_tools))
           => /\ Len(tool_results') = Len(tool_results) + 1
              /\ tool_results'[Len(tool_results')].content
                   = NotFoundText(dispatches'[Len(dispatches')].name)
              /\ "is_error" \notin DOMAIN tool_results'[Len(tool_results')]
              /\ current_round = Len(responses)]_vars
    /\ [][(pc = "exec" /\ pc' # "exec" /\ RoundHadNotFound)
           => /\ pc' = "loop"
              /\ current_round' = current_round
              /\ messages' = Append(messages, [role |-> "user", content |-> tool_results])]_vars

\* The search tool is registered, the model asked for the outline tool in the
\* first round and got the not-found string as a result, and the second
\* Completion Service call has been made with it.
C39_Witness ==
    /\ Keys(tm_tools) = {"search_course_content"}
    /\ Len(api_calls) = 2
    /\ Len(dispatches) >= 1
    /\ dispatches[1].name = "get_course_outline"
    /\ dispatches[1].outcome = [kind |-> "ok", value |-> NotFoundText("get_course_outline")]
    /\ current_round >= 1
    /\ LET msgs == api_calls[2].messages IN
         /\ Len(msgs) = 3
         /\ msgs[3].content[1].content = NotFoundText("get_course_outline")
         /\ "is_error" \notin DOMAIN msgs[3].content[1]

\* ToolManager.get_tool_definitions(): the definition of every registered
\* tool, in dict order; a definition is kept as its name.
get_tool_definitions(d) == [i \in DOMAIN d |-> [name |-> DefinitionName(d[i].tool)]]

\* C40: the dict holds one tool for each of its names, and its names are the
\* names of the tools registered so far (a register_tool call that returns
\* adds its tool's name to them, no other call changes them);
\* get_tool_definitions returns one definition for each of these names and no
\* two with the same name.
C40_OneToolPerName ==
    /\ [](LET defs == get_tool_definitions(tm_tools) IN
            /\ Len(tm_tools) = Cardinality(Keys(tm_tools))
            /\ Len(defs) = Cardinality(Keys(tm_tools))
            /\ { defs[i].name : i \in DOMAIN defs } = Keys(tm_tools)
            /\ \A i, j \in DOMAIN defs : defs[i].name = defs[j].name => i = j)
    /\ [][Keys(tm_tools') =
            IF tm_last'.op = "register_tool" /\ tm_last'.exc = ""
            THEN Keys(tm_tools) \cup {DefinitionName(tm_last'.name)}
            ELSE Keys(tm_tools)]_vars

\* Both search tool objects were registered, the second after the first had
\* run, and the outline tool too: two names, two definitions.
C40_Witness ==
    /\ tm_last.op = "register_tool"
    /\ tm_last.name = "search_b"
    /\ tm_last.exc = ""
    /\ last_sources["search_a"] # <<>>
    /\ Len(get_tool_definitions(tm_tools)) = 2
    /\ Keys(tm_tools) = {"search_course_content", "get_course_outline"}

====
